---- MODULE Spec2Model ----
(***************************************************************************)
(* A model of the projection engine of embeddings-viewer:                  *)
(*   - the orchestrator projectTo2D (specification Spec),                  *)
(*   - the deterministic random source: SeededRandom, generateSeed         *)
(*     (specifications SpecRng and SpecSeed),                              *)
(*   - the t-SNE projector's numeric pipeline, with IEEE-754 values kept   *)
(*     by class (specification SpecTsne).                                  *)
(*   - seededShuffle, uMAP and incrementalPCA (SpecShuffle, SpecUmap,      *)
(*     SpecPca), and a call of any entry point (SpecCalls),                *)
(*   - the schedule, the gains and the clamps of tSNE's descent loop       *)
(*     (SpecSchedule, SpecGains, SpecClamp),                               *)
(*   - the automatic values of the UMAP parameter control (SpecAuto).      *)
(* All specifications share the variables below; each one holds the        *)
(* variables of the others at their idle values.                           *)
(***************************************************************************)
EXTENDS Integers, Sequences, FiniteSets, TLC

VARIABLES
    pc,          \* position inside projectTo2D
    embeddings,  \* argument: the input vectors
    documents,   \* argument: the labels, by position
    options,     \* argument: the algorithm options
    algorithm,   \* local `algorithm` of projectTo2D
    warning,     \* local `warning` of projectTo2D
    points,      \* local `points`: what the projector returned
    invoked,     \* the projectors called so far by this call, in order
    result,      \* the ProjectionResult returned
    numeric,     \* which coordinates of `points` are NaN or infinite
    scan,        \* validPoints, nanPoints and infPoints of the validation loop
    rngInitial,  \* the seed a SeededRandom was constructed with
    rngSeed,     \* its field this.seed
    rngCalls,    \* the number of next() calls made on it
    rngLast,     \* what the last next() returned (numerator over 2^32)
    seedNow,     \* the last generateSeed call: its argument and result
    seedBefore,  \* the generateSeed call before that one
    tPc,         \* position inside tSNE: "idle", "descent" or "done"
    tCall,       \* which call of tSNE this is (1 or 2)
    tIterations, \* options.iterations of this call
    tIter,       \* the loop variable iter of the gradient descent
    tP,          \* the joint probabilities P, by class
    tY,          \* the layout Y
    tStep,       \* YStep
    tExt,        \* the number of Math.random() calls this call has made
    tOut,        \* what tSNE returned
    tFirst,      \* the first call: its arguments and what it returned
    shPc,        \* position inside seededShuffle: "idle", "loop" or "done"
    shArray,     \* argument `array` of seededShuffle
    shBefore,    \* what `array` held when seededShuffle was called
    shI,         \* the loop variable i of seededShuffle
    shJ,         \* the swap indices chosen so far, as pairs <<i, j>>
    shCalls,     \* the number of next() calls made when seededShuffle was called
    uPc,         \* position inside uMAP
    uOptions,    \* argument `options` of uMAP
    uK,          \* nNeighbors
    uKnn,        \* knnIndices (0-based point indices)
    uEdges,      \* the graph, then `edges`: source, target, weight
    uIndices,    \* indices: the order the edges are processed in
    uY,          \* the layout Y, every point by its IEEE-754 class
    uEpoch,      \* the loop variable epoch
    uOut,        \* what uMAP returned
    uGiven,      \* pGivenJ of every neighbour of every point, over ProbScale
    uAlpha,      \* alpha / learningRate of the last epoch begun, a fraction
    uMoves,      \* the updates of Y the last epoch made, in order
    pPc,         \* position inside incrementalPCA
    pOptions,    \* argument `options` of incrementalPCA
    pCentered,   \* centeredData, every entry times n
    pPc1,        \* pc1, by class: "empty", "fin" or "nan"
    pPc2,        \* pc2, by class
    pIter,       \* the loop variable iter of the power iteration
    pOut,        \* what incrementalPCA returned
    sOptions,    \* tSNE's schedule: argument `options`
    sIter,       \* the number of rounds of the descent loop begun
    sExaggeration, \* `exaggeration` of the last round begun, in tenths
    sMomentum,   \* `currentMomentum` of the last round begun, in tenths
    gIter,       \* tSNE's gains: the number of rounds of the descent loop run
    gGain,       \* gains[i][d] of one point and dimension, in millionths
    gPrev,       \* gains[i][d] before the last round
    gGradient,   \* the sign of gradient[i][d] in the last round
    gStepBefore, \* the sign of YStep[i][d] it was compared with
    gStep,       \* the sign of YStep[i][d]
    gBoosts,     \* the number of rounds that added to the gain
    cPc,         \* tSNE's clamps: position, "idle", "descent" or "done"
    cY,          \* Y[i][0] of every point, by the range it lies in
    cStep,       \* YStep[i][0] of every point
    cOther,      \* whether YStep[i][1] is NaN, for every point
    cOut,        \* the x of every point returned
    aPc,         \* the UMAP parameter control: "idle" or "shown"
    aSize,       \* its property datasetSize
    aNeighbors,  \* getAutoNeighbors(datasetSize)
    aEpochs,     \* getAutoEpochs(datasetSize)
    called       \* the function the caller invoked

orchVars == <<pc, embeddings, documents, options, algorithm, warning, points,
              invoked, result, numeric, scan>>
rngVars == <<rngInitial, rngSeed, rngCalls, rngLast>>
seedVars == <<seedNow, seedBefore>>
tsneVars == <<tPc, tCall, tIterations, tIter, tP, tY, tStep, tExt, tOut, tFirst>>
\* The variables of projectTo2D other than its argument `embeddings`.
orchLocals == <<pc, documents, options, algorithm, warning, points, invoked, result,
                numeric, scan>>

shuffleVars == <<shPc, shArray, shBefore, shI, shJ, shCalls>>
\* The variables of the projectors' internals other than t-SNE's pipeline.
umapVars == <<uPc, uOptions, uK, uKnn, uEdges, uIndices, uY, uEpoch, uOut, uGiven,
              uAlpha, uMoves>>
pcaVars == <<pPc, pOptions, pCentered, pPc1, pPc2, pIter, pOut>>
scheduleVars == <<sOptions, sIter, sExaggeration, sMomentum>>
gainVars == <<gIter, gGain, gPrev, gGradient, gStepBefore, gStep, gBoosts>>
clampVars == <<cPc, cY, cStep, cOther, cOut>>
autoVars == <<aPc, aSize, aNeighbors, aEpochs>>
auxVars == <<clampVars, autoVars>>
projectorVars == <<shuffleVars, umapVars, pcaVars, scheduleVars, gainVars, auxVars,
                   called>>

vars == <<orchVars, rngVars, seedVars, tsneVars, projectorVars>>

(***************************************************************************)
(* Bounds of the model.                                                    *)
(***************************************************************************)
\* Datasets of 0..MaxN vectors are enumerated with every combination of labels.
MaxN == 3
\* performance.now() differences are drawn from 0..MaxElapsed.
MaxElapsed == 1
\* Datasets of at most MaxCoords coordinates in all are hashed by generateSeed.
MaxCoords == 2
\* next() is called at most MaxDraws times on one SeededRandom.
MaxDraws == 3
\* tSNE is called on datasets of at most MaxTsneN vectors,
MaxTsneN == 2
\* with options.iterations in 1..MaxTsneIterations;
MaxTsneIterations == 2
\* Math.random() returns one of RandomOutcomes values.
RandomOutcomes == 2

(***************************************************************************)
(* Thresholds of projectTo2D.                                              *)
(***************************************************************************)
AutoPcaAbove == 8000
PcaWarnUpTo == 1000
UmapWarnAbove == 8000
TsneWarnAbove == 1000
\* "Auto: selects UMAP for <8000 samples, PCA for larger"
ReadmeUmapBelow == 8000

(***************************************************************************)
(* Values.                                                                 *)
(***************************************************************************)
\* JavaScript `undefined` where a string is expected (warning, a label).
Undefined == [defined |-> FALSE, text |-> ""]
Str(s) == [defined |-> TRUE, text |-> s]

\* documents[i] when the array has no element there.
NoDocument == [present |-> FALSE, title |-> "", text |-> ""]
Doc(t, x) == [present |-> TRUE, title |-> t, text |-> x]

\* A float the model keeps by what it is: the literal 0, or the value a
\* projector computed for a point and an axis.
Zero == [cls |-> "zero", sym |-> <<>>]
Computed(proj, i, axis) == [cls |-> "computed", sym |-> <<proj, i, axis>>]

Algorithms == {"auto", "umap", "tsne", "pca"}

Min(a, b) == IF a < b THEN a ELSE b
Max(a, b) == IF a > b THEN a ELSE b

(***************************************************************************)
(* Point construction shared by the projectors and the orchestrator:       *)
(*   title: documents[i]?.title || `Document ${i + 1}`                     *)
(*   text:  documents[i]?.text || ''                                       *)
(* `docs` is 1-based here, the code's index i is 0-based.                  *)
(***************************************************************************)
DocAt(docs, i) == IF i + 1 \in DOMAIN docs THEN docs[i + 1] ELSE NoDocument

PointTitle(docs, i) ==
    LET d == DocAt(docs, i)
    IN  IF d.present /\ d.title # "" THEN d.title
        ELSE "Document " \o ToString(i + 1)

PointText(docs, i) ==
    LET d == DocAt(docs, i)
    IN  IF d.present /\ d.text # "" THEN d.text ELSE ""

MakePoint(px, py, docs, i) ==
    [x |-> px, y |-> py, title |-> PointTitle(docs, i),
     text |-> PointText(docs, i), index |-> i]

SinglePoint(docs) == <<MakePoint(Zero, Zero, docs, 0)>>

\* Mutant: the points carry their 1-based position.
Projected_OneBased(proj, n, docs) ==
    [k \in 1..n |-> MakePoint(Computed(proj, k - 1, 0), Computed(proj, k - 1, 1),
                              docs, k)]

\* The `projected` array every projector builds in its last loop.
Projected(proj, n, docs) ==
    [k \in 1..n |-> MakePoint(Computed(proj, k - 1, 0), Computed(proj, k - 1, 1),
                              docs, k - 1)]

(***************************************************************************)
(* The three projectors, as far as the shape of what they return goes.     *)
(* A call either returns an array of points or throws.                     *)
(***************************************************************************)
Returns(pts) == [threw |-> FALSE, points |-> pts]
Throws == [threw |-> TRUE, points |-> <<>>]

uMAP(emb, docs) ==
    IF Len(emb) = 0 THEN Returns(<<>>)
    ELSE IF Len(emb) = 1 THEN Returns(SinglePoint(docs))
    ELSE Returns(Projected("umap", Len(emb), docs))

tSNE(emb, docs) ==
    IF Len(emb) = 0 THEN Returns(<<>>)
    ELSE IF Len(emb) = 1 THEN Returns(SinglePoint(docs))
    ELSE Returns(Projected("tsne", Len(emb), docs))

\* incrementalPCA has no guard for small n: it reads embeddings[0].length
\* first, a TypeError on an empty array.
incrementalPCA(emb, docs) ==
    IF Len(emb) = 0 THEN Throws
    ELSE Returns(Projected("pca", Len(emb), docs))

(***************************************************************************)
(* projectTo2D, block by block.                                            *)
(***************************************************************************)
\* The validation loop has not run.
NotScanned == [validPoints |-> 0, nanPoints |-> 0, infPoints |-> 0]

\* What the coordinates a projector returned can be.  The model keeps a
\* computed coordinate by name; `numeric` tells which of them are NaN or
\* infinite: none, x of point 0 NaN, y of point 1 infinite, or point 0 with
\* an infinite x and a NaN y beside point 1 with an infinite x.
NumericPatterns == {"finite", "nan", "inf", "mixed"}

CoordinateClass(pattern, i, axis) ==
    CASE pattern = "nan" /\ i = 0 /\ axis = 0 -> "nan"
      [] pattern = "inf" /\ i = 1 /\ axis = 1 -> "inf"
      [] pattern = "mixed" /\ i = 0 /\ axis = 0 -> "inf"
      [] pattern = "mixed" /\ i = 0 /\ axis = 1 -> "nan"
      [] pattern = "mixed" /\ i = 1 /\ axis = 0 -> "inf"
      [] OTHER -> "finite"

\* isNaN(point.x) || isNaN(point.y)
IsNaNPoint(pattern, i) ==
    CoordinateClass(pattern, i, 0) = "nan" \/ CoordinateClass(pattern, i, 1) = "nan"

\* !isFinite(point.x) || !isFinite(point.y), in the else branch
IsInfPoint(pattern, i) ==
    /\ ~IsNaNPoint(pattern, i)
    /\ CoordinateClass(pattern, i, 0) # "finite" \/ CoordinateClass(pattern, i, 1) # "finite"

\* Lines 86-98: the three counters after the loop over `points`.
Validate(pts, pattern) ==
    LET nans == {i \in 0..(Len(pts) - 1) : IsNaNPoint(pattern, i)}
        infs == {i \in 0..(Len(pts) - 1) : IsInfPoint(pattern, i)}
    IN  [validPoints |-> Len(pts) - Cardinality(nans) - Cardinality(infs),
         nanPoints |-> Cardinality(nans),
         infPoints |-> Cardinality(infs)]

\* Mutant: the points counted as NaN or infinite are withheld.
ReturnedPoints_ValidOnly(pts, pattern) ==
    SelectSeq(pts, LAMBDA pt : ~IsNaNPoint(pattern, pt.index) /\ ~IsInfPoint(pattern, pt.index))

\* Line 109: `points` of the returned object is the array the projector
\* returned; the counters are only logged.
ReturnedPoints(pts, pattern) == pts

NoResult == [points |-> <<>>, algorithm |-> "", timeMs |-> 0, warning |-> Undefined]

\* Mutant: the guard for the empty dataset is missing.
EmptyDataset_Never(emb) == FALSE

\* if (embeddings.length === 0) return {...}
EmptyDataset(emb) == Len(emb) = 0
NoDataResult ==
    [points |-> <<>>, algorithm |-> "No data", timeMs |-> 0, warning |-> Undefined]

\* Mutant: the guard for the single vector is missing.
SingleVector_Never(emb) == FALSE

\* if (embeddings.length === 1) { return {...} }
SingleVector(emb) == Len(emb) = 1
SinglePointResult(docs) ==
    [points |-> SinglePoint(docs), algorithm |-> "Single point", timeMs |-> 0,
     warning |-> Undefined]

\* Mutant: the size test of `auto` is n >= 8000.
ChooseAlgorithm_AtLeast(requested, n) ==
    IF requested = "auto"
    THEN IF n >= AutoPcaAbove THEN "pca" ELSE "umap"
    ELSE requested

\* if (options.algorithm === 'auto') { n > 8000 ? 'pca' : 'umap' } else ...
ChooseAlgorithm(requested, n) ==
    IF requested = "auto"
    THEN IF n > AutoPcaAbove THEN "pca" ELSE "umap"
    ELSE requested

\* Mutant: the PCA advisory tests n < 1000.
SizeWarning_Strict(alg, n) ==
    IF alg = "pca" /\ n < PcaWarnUpTo THEN Str("PCA is recommended")
    ELSE IF alg = "umap" /\ n > UmapWarnAbove THEN Str("UMAP may be slow")
    ELSE IF alg = "tsne" /\ n > TsneWarnAbove THEN Str("t-SNE is recommended")
    ELSE Undefined

\* The three advisory messages.
SizeWarning(alg, n) ==
    IF alg = "pca" /\ n <= PcaWarnUpTo
    THEN Str("PCA is recommended for datasets > 8000 samples. Current: "
             \o ToString(n)
             \o " samples. Consider using UMAP or t-SNE for better clustering.")
    ELSE IF alg = "umap" /\ n > UmapWarnAbove
    THEN Str("UMAP may be slow for datasets > 8000 samples. Current: "
             \o ToString(n)
             \o " samples. Consider using PCA for faster results.")
    ELSE IF alg = "tsne" /\ n > TsneWarnAbove
    THEN Str("t-SNE is recommended for datasets < 1000 samples. Current: "
             \o ToString(n)
             \o " samples. Consider using UMAP for better performance.")
    ELSE Undefined

\* The projector the switch statement calls; its default branch runs UMAP.
SwitchTarget(alg) == IF alg \in {"umap", "tsne", "pca"} THEN alg ELSE "umap"

CallProjector(proj, emb, docs) ==
    CASE proj = "umap" -> uMAP(emb, docs)
      [] proj = "tsne" -> tSNE(emb, docs)
      [] proj = "pca" -> incrementalPCA(emb, docs)

\* String.prototype.toUpperCase on the algorithm names.
ToUpperCase(s) ==
    CASE s = "umap" -> "UMAP"
      [] s = "tsne" -> "TSNE"
      [] s = "pca" -> "PCA"
      [] s = "auto" -> "AUTO"

(***************************************************************************)
(* The datasets and options projectTo2D is called with.                    *)
(***************************************************************************)
\* The vector stored at (0-based) position i: one coordinate, all distinct.
VectorAt(i) == <<i>>
Vectors(n) == [k \in 1..n |-> VectorAt(k - 1)]

LabelChoices == {NoDocument, Doc("", ""), Doc("A", "a"), Doc("B", "")}

\* Sizes on both sides of every threshold of the orchestrator.
ThresholdSizes ==
    UNION {{t, t + 1} : t \in {AutoPcaAbove, PcaWarnUpTo, UmapWarnAbove,
                               TsneWarnAbove, ReadmeUmapBelow}}
    \cup {ReadmeUmapBelow - 1}

SmallDocuments == UNION {[1..n -> LabelChoices] : n \in 0..MaxN}
LargeDocuments ==
    {[k \in 1..n |-> l] : n \in ThresholdSizes, l \in {NoDocument, Doc("A", "a")}}

NoHash == [valid |-> FALSE, emb |-> <<>>, seed |-> [hi |-> 0, lo |-> 0]]

RngIdle ==
    /\ rngInitial = [hi |-> 0, lo |-> 0]
    /\ rngSeed = <<0, 0, 0, 0>>
    /\ rngCalls = 0
    /\ rngLast = [hi |-> 0, lo |-> 0]

SeedIdle == seedNow = NoHash /\ seedBefore = NoHash

NoCall == [emb |-> <<>>, iterations |-> 0, points |-> <<>>]

TsneIdle ==
    /\ tPc = "idle"
    /\ tCall = 1
    /\ tIterations = 0
    /\ tIter = 0
    /\ tP = <<>>
    /\ tY = <<>>
    /\ tStep = <<>>
    /\ tExt = 0
    /\ tOut = <<>>
    /\ tFirst = NoCall

ShuffleIdle ==
    /\ shPc = "idle"
    /\ shArray = <<>>
    /\ shBefore = <<>>
    /\ shI = 0
    /\ shJ = <<>>
    /\ shCalls = 0

\* An optional number of an options object: missing, or given with a value.
Missing == [given |-> FALSE, val |-> 0]
Given(v) == [given |-> TRUE, val |-> v]

\* `options` undefined.  learningRate is kept by class: "default" (1.0) or
\* "inf" (Infinity).
NoOptions == [nNeighbors |-> Missing, nEpochs |-> Missing, learningRate |-> "default"]

\* A number that may be NaN.
NaNNumber == [nan |-> TRUE, val |-> 0]
Num(v) == [nan |-> FALSE, val |-> v]

\* No epoch has begun.
NoAlpha == [num |-> 0, den |-> 0]

UmapIdle ==
    /\ uPc = "idle"
    /\ uOptions = NoOptions
    /\ uK = Num(0)
    /\ uKnn = <<>>
    /\ uEdges = <<>>
    /\ uIndices = <<>>
    /\ uY = <<>>
    /\ uEpoch = 0
    /\ uOut = <<>>
    /\ uGiven = <<>>
    /\ uAlpha = NoAlpha
    /\ uMoves = <<>>

\* incrementalPCA has not been called.
PcaIdle ==
    /\ pPc = "idle"
    /\ pOptions = [powerIterations |-> Missing]
    /\ pCentered = <<>>
    /\ pPc1 = "empty"
    /\ pPc2 = "empty"
    /\ pIter = 0
    /\ pOut = <<>>

\* TSNEOptions, as far as the schedule reads it: every field absent.
NoTsneOptions == [iterations |-> Missing, earlyExaggeration |-> Missing,
                  momentum |-> Missing]

\* No round of tSNE's descent loop is followed for its schedule,
ScheduleIdle ==
    /\ sOptions = NoTsneOptions
    /\ sIter = 0
    /\ sExaggeration = 0
    /\ sMomentum = 0

\* nor for its gains.
GainsIdle ==
    /\ gIter = 0
    /\ gGain = 0
    /\ gPrev = 0
    /\ gGradient = "zero"
    /\ gStepBefore = "zero"
    /\ gStep = "zero"
    /\ gBoosts = 0

\* The clamps of tSNE's descent loop are not followed,
ClampIdle ==
    /\ cPc = "idle"
    /\ cY = <<>>
    /\ cStep = <<>>
    /\ cOther = <<>>
    /\ cOut = <<>>

\* and the UMAP parameter control is not rendered.
AutoIdle ==
    /\ aPc = "idle"
    /\ aSize = 0
    /\ aNeighbors = Num(0)
    /\ aEpochs = 0

AuxIdle == ClampIdle /\ AutoIdle

ProjectorsIdle ==
    ShuffleIdle /\ UmapIdle /\ PcaIdle /\ ScheduleIdle /\ GainsIdle /\ AuxIdle

\* projectTo2D is not running; `embeddings` is left to the specification.
OrchIdle ==
    /\ pc = "idle"
    /\ documents = <<>>
    /\ options = [algorithm |-> "auto"]
    /\ algorithm = ""
    /\ warning = Undefined
    /\ points = <<>>
    /\ invoked = <<>>
    /\ result = NoResult
    /\ numeric = "finite"
    /\ scan = NotScanned

Init ==
    /\ called = "projectTo2D"
    /\ pc = "entry"
    /\ documents \in SmallDocuments \cup LargeDocuments
    /\ embeddings = Vectors(Len(documents))
    /\ options \in [algorithm : Algorithms]
    /\ algorithm = ""
    /\ warning = Undefined
    /\ points = <<>>
    /\ invoked = <<>>
    /\ result = NoResult
    /\ numeric = "finite"
    /\ scan = NotScanned
    /\ RngIdle
    /\ SeedIdle
    /\ TsneIdle
    /\ ProjectorsIdle

\* Lines 19-32: the two short-circuit returns, else fall through.
Enter ==
    /\ pc = "entry"
    /\ IF EmptyDataset(embeddings)
       THEN result' = NoDataResult /\ pc' = "returned"
       ELSE IF SingleVector(embeddings)
       THEN result' = SinglePointResult(documents) /\ pc' = "returned"
       ELSE pc' = "select" /\ UNCHANGED result
    /\ UNCHANGED <<embeddings, documents, options, algorithm, warning, points,
                   invoked, numeric, scan>>
    /\ UNCHANGED <<rngVars, seedVars, tsneVars>>
    /\ UNCHANGED projectorVars

\* Lines 43-52.
SelectAlgorithm ==
    /\ pc = "select"
    /\ algorithm' = ChooseAlgorithm(options.algorithm, Len(embeddings))
    /\ pc' = "warn"
    /\ UNCHANGED <<embeddings, documents, options, warning, points, invoked,
                   result, numeric, scan>>
    /\ UNCHANGED <<rngVars, seedVars, tsneVars>>
    /\ UNCHANGED projectorVars

\* Lines 54-61.
Warn ==
    /\ pc = "warn"
    /\ warning' = SizeWarning(algorithm, Len(embeddings))
    /\ pc' = "project"
    /\ UNCHANGED <<embeddings, documents, options, algorithm, points, invoked,
                   result, numeric, scan>>
    /\ UNCHANGED <<rngVars, seedVars, tsneVars>>
    /\ UNCHANGED projectorVars

\* Lines 63-81: the switch; its default branch also sets algorithm = 'umap'.
\* An exception of the projector leaves projectTo2D at once.  What the
\* projector computed may hold NaN or infinite coordinates.
RunProjector ==
    /\ pc = "project"
    /\ LET proj == SwitchTarget(algorithm)
           r == CallProjector(proj, embeddings, documents)
       IN  /\ algorithm' = proj
           /\ invoked' = Append(invoked, proj)
           /\ points' = r.points
           /\ pc' = IF r.threw THEN "threw" ELSE "validate"
           /\ IF r.threw THEN UNCHANGED numeric ELSE numeric' \in NumericPatterns
    /\ UNCHANGED <<embeddings, documents, options, warning, result, scan>>
    /\ UNCHANGED <<rngVars, seedVars, tsneVars>>
    /\ UNCHANGED projectorVars

\* Lines 83-109: the elapsed time, the scan (it only logs) and the return.
Return ==
    /\ pc = "validate"
    /\ scan' = Validate(points, numeric)
    /\ \E elapsed \in 0..MaxElapsed :
          result' = [points |-> ReturnedPoints(points, numeric),
                     algorithm |-> ToUpperCase(algorithm),
                     timeMs |-> elapsed, warning |-> warning]
    /\ pc' = "returned"
    /\ UNCHANGED <<embeddings, documents, options, algorithm, warning, points,
                   invoked, numeric>>
    /\ UNCHANGED <<rngVars, seedVars, tsneVars>>
    /\ UNCHANGED projectorVars

Next ==
    \/ Enter
    \/ SelectAlgorithm
    \/ Warn
    \/ RunProjector
    \/ Return

Spec == Init /\ [][Next]_vars

\* C15: the validity scan is diagnostic only.  For n >= 2 projectTo2D does
\* not raise, and it returns exactly the points the projector returned (same
\* values, same order, none dropped or altered) with the algorithm label and
\* the elapsed time, also when coordinates are NaN or infinite.
C15_ScanIsDiagnostic ==
    Len(embeddings) >= 2 =>
        /\ pc # "threw"
        /\ pc = "returned" =>
              /\ result.points = CallProjector(algorithm, embeddings, documents).points
              /\ result.points = points
              /\ result.algorithm = ToUpperCase(algorithm)
              /\ result.timeMs \in 0..MaxElapsed
              /\ scan.validPoints + scan.nanPoints + scan.infPoints = Len(points)

\* A result returned although the scan counted NaN and infinite points.
C15_Witness ==
    /\ pc = "returned"
    /\ Len(embeddings) >= 2
    /\ scan.nanPoints > 0
    /\ scan.infPoints > 0
    /\ Len(result.points) = Len(embeddings)

(***************************************************************************)
(* 32-bit words.  TLC's integers are 32-bit signed, so an unsigned 32-bit   *)
(* word is kept as two 16-bit halves [hi, lo]; the operators below are the *)
(* JavaScript int32 operators on such words.                               *)
(***************************************************************************)
Half == 65536
Byte == 256

W(h, l) == [hi |-> h, lo |-> l]

RECURSIVE Pow2(_)
Pow2(k) == IF k = 0 THEN 1 ELSE 2 * Pow2(k - 1)

\* a ^ b on naturals below 2^16.
RECURSIVE BitXor(_, _)
BitXor(a, b) ==
    IF a = 0 THEN b
    ELSE IF b = 0 THEN a
    ELSE ((a + b) % 2) + 2 * BitXor(a \div 2, b \div 2)

\* a | b on naturals below 2^16.
RECURSIVE BitOr(_, _)
BitOr(a, b) ==
    IF a = 0 THEN b
    ELSE IF b = 0 THEN a
    ELSE (IF a % 2 = 1 \/ b % 2 = 1 THEN 1 ELSE 0) + 2 * BitOr(a \div 2, b \div 2)

Xor32(a, b) == W(BitXor(a.hi, b.hi), BitXor(a.lo, b.lo))
Or32(a, b) == W(BitOr(a.hi, b.hi), BitOr(a.lo, b.lo))

\* w >>> s for 0 < s < 16.
Shr32(w, s) ==
    W(w.hi \div Pow2(s), (w.lo \div Pow2(s)) + (w.hi % Pow2(s)) * Pow2(16 - s))

\* (a + b) mod 2^32.
Add32(a, b) ==
    LET l == a.lo + b.lo
    IN  W((a.hi + b.hi + (l \div Half)) % Half, l % Half)

\* The low 16 bits of x * y, for x, y below 2^16.
MulLow16(x, y) ==
    (((x % Byte) * y) + ((((x \div Byte) * y) % Byte) * Byte)) % Half

\* Math.imul(a, b): the low 32 bits of the product.
Imul(a, b) ==
    LET p0 == (a.lo % Byte) * b.lo
        p1 == (a.lo \div Byte) * b.lo
        l  == p0 + (p1 % Byte) * Byte
        c  == (l \div Half) + (p1 \div Byte)
    IN  W((c + MulLow16(a.lo, b.hi) + MulLow16(a.hi, b.lo)) % Half, l % Half)

(***************************************************************************)
(* generateSeed: FNV-1a over the bytes of every coordinate.                *)
(* A coordinate of the model is an integer-valued double, written as the   *)
(* integer; Float64Bytes gives the eight bytes `new Uint8Array(new         *)
(* Float64Array([value]).buffer)` holds on a little-endian platform.       *)
(***************************************************************************)
Abs(k) == IF k < 0 THEN -k ELSE k

\* floor(log2(m)) for m >= 1.
RECURSIVE Log2Floor(_)
Log2Floor(m) == IF m < 2 THEN 0 ELSE 1 + Log2Floor(m \div 2)

\* Bit p (0..51) of the fraction field of the double with magnitude m >= 1:
\* the bits of m below its leading one, left-aligned in 52 bits.
FractionBit(m, p) ==
    LET e == Log2Floor(m)
        b == p - (52 - e)
    IN  IF b < 0 THEN 0 ELSE ((m - Pow2(e)) \div Pow2(b)) % 2

\* Bits lowest..lowest+width-1 of the fraction field, as a number.
RECURSIVE FractionBits(_, _, _)
FractionBits(m, lowest, width) ==
    IF width = 0 THEN 0
    ELSE FractionBit(m, lowest) + 2 * FractionBits(m, lowest + 1, width - 1)

Float64Bytes(k) ==
    IF k = 0 THEN <<0, 0, 0, 0, 0, 0, 0, 0>>
    ELSE LET m == Abs(k)
             biased == 1023 + Log2Floor(m)
             sign == IF k < 0 THEN 1 ELSE 0
         IN  <<FractionBits(m, 0, 8), FractionBits(m, 8, 8),
               FractionBits(m, 16, 8), FractionBits(m, 24, 8),
               FractionBits(m, 32, 8), FractionBits(m, 40, 8),
               (biased % 16) * 16 + FractionBits(m, 48, 4),
               sign * 128 + (biased \div 16)>>

FnvOffsetBasis == W(33052, 40389)   \* 0x811C9DC5
FnvPrime == W(256, 403)             \* 0x01000193

\* hash ^= buffer[k]; hash = Math.imul(hash, 0x01000193)
FnvStep(hash, byte) == Imul(Xor32(hash, W(0, byte)), FnvPrime)

\* Mutant: the loop over the bytes stops one byte early.
RECURSIVE FnvBytes_SkipLast(_, _, _)
FnvBytes_SkipLast(hash, bytes, k) ==
    IF k > Len(bytes) - 1 THEN hash
    ELSE LET h == Imul(Xor32(hash, W(0, bytes[k])), W(256, 403))
         IN  IF h.lo >= 0 THEN FnvBytes_SkipLast(h, bytes, k + 1) ELSE h

\* The loops below name each intermediate hash and test it before going on:
\* TLC evaluates operator arguments lazily, and the test makes it compute
\* the hash of one step before it starts the next.
RECURSIVE FnvBytes(_, _, _)
FnvBytes(hash, bytes, k) ==
    IF k > Len(bytes) THEN hash
    ELSE LET h == FnvStep(hash, bytes[k])
         IN  IF h.lo >= 0 THEN FnvBytes(h, bytes, k + 1) ELSE h

\* The inner loop over j: one vector.
RECURSIVE FnvVector(_, _, _)
FnvVector(hash, vec, j) ==
    IF j > Len(vec) THEN hash
    ELSE LET h == FnvBytes(hash, Float64Bytes(vec[j]), 1)
         IN  IF h.lo >= 0 THEN FnvVector(h, vec, j + 1) ELSE h

\* The length of the runs in which the long loops below are evaluated: a
\* loop of n steps is evaluated as about sqrt(n) runs of about sqrt(n) steps,
\* which keeps the depth of the evaluation near 2 * sqrt(n).
RunLength(n) == CHOOSE b \in 1..(n + 1) : b * b >= n /\ (b - 1) * (b - 1) < n

\* The outer loop over i, from vector i to vector `last`.
RECURSIVE FnvVectorsTo(_, _, _, _)
FnvVectorsTo(hash, emb, i, last) ==
    IF i > last THEN hash
    ELSE LET h == FnvVector(hash, emb[i], 1)
         IN  IF h.lo >= 0 THEN FnvVectorsTo(h, emb, i + 1, last) ELSE h

\* The outer loop over i, from vector i on.
RECURSIVE FnvVectors(_, _, _)
FnvVectors(hash, emb, i) ==
    IF i > Len(emb) THEN hash
    ELSE LET last == Min(i + RunLength(Len(emb)) - 1, Len(emb))
             h == FnvVectorsTo(hash, emb, i, last)
         IN  IF h.lo >= 0 THEN FnvVectors(h, emb, last + 1) ELSE h

generateSeed(emb) == FnvVectors(FnvOffsetBasis, emb, 1)

(***************************************************************************)
(* SeededRandom.  this.seed is a JavaScript number: `this.seed +=          *)
(* 0x6D2B79F5` adds in double arithmetic and nothing truncates the sum, so *)
(* the stored value is kept as four 16-bit limbs, least significant first  *)
(* (exact below 2^53).  The int32 operators read its low 32 bits.          *)
(***************************************************************************)
Increment == W(27947, 31221)        \* 0x6D2B79F5

\* new SeededRandom(seed)
SeededRandom(seed) == <<seed.lo, seed.hi, 0, 0>>

\* this.seed += 0x6D2B79F5
Advance(st) ==
    LET a0 == st[1] + Increment.lo
        a1 == st[2] + Increment.hi + (a0 \div Half)
        a2 == st[3] + (a1 \div Half)
        a3 == st[4] + (a2 \div Half)
    IN  <<a0 % Half, a1 % Half, a2 % Half, a3>>

\* ToInt32 of the stored number, as an unsigned word.
ToInt32(st) == W(st[2], st[1])

\* The rest of next(): the two mixing rounds; the result is the numerator
\* of the returned fraction (value / 4294967296).
Mix(t0) ==
    LET t1 == Imul(Xor32(t0, Shr32(t0, 15)), Or32(t0, W(0, 1)))
        t2 == Xor32(t1, Add32(t1, Imul(Xor32(t1, Shr32(t1, 7)), Or32(t1, W(0, 61)))))
    IN  Xor32(t2, Shr32(t2, 14))

\* next(): the new stored state and the value returned.
RngNext(st) ==
    LET st1 == Advance(st)
    IN  [state |-> st1, value |-> Mix(ToInt32(st1))]

(***************************************************************************)
(* Claims about projectTo2D, checked under Spec.                           *)
(***************************************************************************)
N == Len(embeddings)
Returned == pc = "returned"
\* The projector has run (n >= 2): the call is past the switch statement.
Ran == pc \in {"validate", "returned"}

\* C1: for an empty dataset and any options, projectTo2D returns zero points,
\* the label "No data" and timeMs = 0, and invokes no projector.
C1_EmptyDataset ==
    (Returned /\ N = 0) =>
        /\ result.points = <<>>
        /\ result.algorithm = "No data"
        /\ result.timeMs = 0
        /\ invoked = <<>>

C1_Witness == Returned /\ N = 0 /\ options.algorithm = "tsne"

\* C2: for a dataset of exactly one vector and every algorithm choice,
\* projectTo2D returns exactly one point with x = 0, y = 0, index = 0, the
\* label "Single point" and timeMs = 0.
C2_SingleVector ==
    (Returned /\ N = 1) =>
        /\ Len(result.points) = 1
        /\ result.points[1].x = Zero
        /\ result.points[1].y = Zero
        /\ result.points[1].index = 0
        /\ result.algorithm = "Single point"
        /\ result.timeMs = 0

C2_Witness == Returned /\ N = 1 /\ options.algorithm = "pca"

C4_ReadmeBoundary ==
    (Ran /\ N >= 2 /\ options.algorithm = "auto") =>
        /\ N < ReadmeUmapBelow => invoked = <<"umap">>
        /\ N >= ReadmeUmapBelow => invoked = <<"pca">>

\* C5: for n >= 2 the result carries a non-empty warning exactly when the
\* algorithm run is PCA with n <= 1000, UMAP with n > 8000 or t-SNE with
\* n > 1000; the warning never keeps the projector from running.
C5_Warnings ==
    (Ran /\ N >= 2) =>
        /\ Len(invoked) = 1
        /\ (warning.defined /\ warning.text # "")
               <=> \/ invoked[1] = "pca" /\ N <= 1000
                   \/ invoked[1] = "umap" /\ N > 8000
                   \/ invoked[1] = "tsne" /\ N > 1000
        /\ ~warning.defined => warning = Undefined
        /\ Returned => result.warning = warning /\ Len(result.points) = N

C5_Witness ==
    /\ Returned /\ N = 1000 /\ invoked = <<"pca">>
    /\ result.warning.defined /\ Len(result.points) = 1000

\* C6: for n >= 2 and every algorithm choice the returned points are n
\* entries in input order: the i-th point has index = i (0-based).
C6_OrderPreserved ==
    (Returned /\ N >= 2) =>
        /\ Len(result.points) = N
        /\ \A i \in 0..(N - 1) : result.points[i + 1].index = i

C6_Witness == Returned /\ N = 3 /\ invoked = <<"tsne">>

\* C7: title and text of point i are copied unchanged from labels[i] whenever
\* labels[i] is present, whatever strings it holds; the placeholder
\* "Document {i+1}" is used only when the label is absent.
C7_LabelsCopied ==
    Returned =>
        \A i \in 0..(Len(result.points) - 1) :
            LET d == DocAt(documents, i)
                p == result.points[i + 1]
            IN  /\ d.present => (p.title = d.title /\ p.text = d.text)
                /\ ~d.present => p.title = "Document " \o ToString(i + 1)

(***************************************************************************)
(* SpecSeed: generateSeed on a dataset, and again after the caller has     *)
(* replaced one coordinate by another value.                               *)
(***************************************************************************)
\* 209 and 8929133 are two doubles whose bytes FNV-1a maps to one hash.
CoordChoices == {0, 2, 3, -2, 209, 8929133}

SeedShapes ==
    {sh \in (1..MaxCoords) \X (1..MaxCoords) : sh[1] * sh[2] <= MaxCoords}

SeedDatasets ==
    {<<>>} \cup UNION {[1..sh[1] -> [1..sh[2] -> CoordChoices]] : sh \in SeedShapes}

InitSeed ==
    /\ called = "generateSeed"
    /\ embeddings \in SeedDatasets
    /\ OrchIdle
    /\ RngIdle
    /\ SeedIdle
    /\ TsneIdle
    /\ ProjectorsIdle

\* seed = generateSeed(embeddings)
HashDataset ==
    /\ ~seedNow.valid
    /\ seedNow' = [valid |-> TRUE, emb |-> embeddings, seed |-> generateSeed(embeddings)]
    /\ UNCHANGED <<seedBefore, orchVars, rngVars, tsneVars>>
    /\ UNCHANGED projectorVars

\* The caller stores another value at embeddings[i][j] and hashes again.
ReplaceCoordinate ==
    /\ seedNow.valid
    /\ ~seedBefore.valid
    /\ \E i \in DOMAIN embeddings :
          \E j \in DOMAIN embeddings[i] :
             \E v \in CoordChoices \ {embeddings[i][j]} :
                LET emb == [embeddings EXCEPT ![i][j] = v]
                IN  /\ embeddings' = emb
                    /\ seedBefore' = seedNow
                    /\ seedNow' = [valid |-> TRUE, emb |-> emb,
                                   seed |-> generateSeed(emb)]
    /\ UNCHANGED <<orchLocals, rngVars, tsneVars>>
    /\ UNCHANGED projectorVars

NextSeed ==
    \/ HashDataset
    \/ ReplaceCoordinate

SpecSeed == InitSeed /\ [][NextSeed]_vars

(***************************************************************************)
(* SpecRng: a SeededRandom built on the seed of a dataset, and next()      *)
(* called on it.                                                           *)
(***************************************************************************)
InitRng ==
    /\ called = "SeededRandom"
    /\ embeddings \in SeedDatasets
    /\ OrchIdle
    /\ SeedIdle
    /\ TsneIdle
    /\ ProjectorsIdle
    /\ rngInitial = generateSeed(embeddings)
    /\ rngSeed = SeededRandom(rngInitial)
    /\ rngCalls = 0
    /\ rngLast = [hi |-> 0, lo |-> 0]

\* rng.next()
CallNext ==
    /\ rngCalls < MaxDraws
    /\ LET r == RngNext(rngSeed)
       IN  /\ rngSeed' = r.state
           /\ rngLast' = r.value
    /\ rngCalls' = rngCalls + 1
    /\ UNCHANGED <<rngInitial, orchVars, seedVars, tsneVars>>
    /\ UNCHANGED projectorVars

NextRng == CallNext

SpecRng == InitRng /\ [][NextRng]_vars

(***************************************************************************)
(* Claims about the random source.                                         *)
(***************************************************************************)
\* The number of byte positions at which the byte streams of two datasets
\* of one shape differ.
BytesDiffering(a, b) ==
    Cardinality({pos \in (DOMAIN a) \X (1..MaxCoords + 1) \X (1..8) :
                    /\ pos[2] \in DOMAIN a[pos[1]]
                    /\ a[pos[1]][pos[2]] # b[pos[1]][pos[2]]
                    /\ Float64Bytes(a[pos[1]][pos[2]])[pos[3]]
                         # Float64Bytes(b[pos[1]][pos[2]])[pos[3]]})

\* C9 as stated: replacing the value of any single coordinate by a different
\* 64-bit float value changes the seed generateSeed returns.
C9_AnyChangeChangesSeed ==
    seedBefore.valid => seedNow.seed # seedBefore.seed

\* C9 as amended: replacing the value of a single coordinate by a value whose
\* 8-byte representation differs from the old one in exactly one byte changes
\* the seed generateSeed returns.
C9_OneByteChangesSeed ==
    (seedBefore.valid /\ BytesDiffering(seedBefore.emb, seedNow.emb) = 1)
        => seedNow.seed # seedBefore.seed

C9_Witness ==
    /\ seedBefore.valid
    /\ BytesDiffering(seedBefore.emb, seedNow.emb) = 1
    /\ Len(embeddings) = 2
    /\ seedNow.emb # seedBefore.emb

\* (s + k * 0x6D2B79F5) mod 2^32
RECURSIVE AddIncrement(_, _)
AddIncrement(s, k) ==
    IF k = 0 THEN s ELSE AddIncrement(Add32(s, Increment), k - 1)

\* C10: after k calls to next() on a stream built from a 32-bit seed s the
\* stored state equals (s + k * 0x6D2B79F5) mod 2^32, so it always stays
\* within the 32-bit range.
C10_StateIs32Bit ==
    /\ rngSeed[3] = 0
    /\ rngSeed[4] = 0
    /\ W(rngSeed[2], rngSeed[1]) = AddIncrement(rngInitial, rngCalls)

(***************************************************************************)
(* SpecTsne: the numeric pipeline of tSNE.  A double is kept by its        *)
(* IEEE-754 class and by the random draws its value depends on; the        *)
(* arithmetic below is what the class of each result is, given the classes *)
(* of the operands (NaN is contagious, 0 / 0 is NaN, Math.min and Math.max *)
(* return NaN for a NaN operand).                                          *)
(***************************************************************************)
\* The largest squared distance d2 with Math.exp(-d2 / (2 * sigma * sigma)) > 0
\* at the largest bandwidth the search reaches (sigma just below sigmaHigh =
\* 1000): beyond it the similarity underflows to 0.
UnderflowDistSq == 1490266438

Fin(deps) == [cls |-> "fin", deps |-> deps]
NaN == [cls |-> "nan", deps |-> {}]

\* One draw of the seeded stream (the k-th of this call) and one of
\* Math.random() (made in iteration it for point i, axis d).
SeededDraw(k, value) == [src |-> "seeded", at |-> <<k>>, val |-> <<value.hi, value.lo>>]
ExternalDraw(it, i, d, r) == [src |-> "external", at |-> <<it, i, d>>, val |-> <<r>>]

\* `sum` of lines 152-156; dist = Math.sqrt(sum) is squared again at its uses.
RECURSIVE DistSqFrom(_, _, _)
DistSqFrom(u, v, d) ==
    IF d > Len(u) THEN 0
    ELSE (u[d] - v[d]) * (u[d] - v[d]) + DistSqFrom(u, v, d + 1)

DistSq(u, v) == DistSqFrom(u, v, 1)

\* options?.perplexity ?? (n < 30 ? 5 : (n <= 100 ? 10 : Math.min(30, n - 1)))
DefaultPerplexity(n) == IF n < 30 THEN 5 ELSE IF n <= 100 THEN 10 ELSE Min(30, n - 1)

\* The entropy of a row of n - 1 probabilities is at most ln(n - 1); when
\* that is below the target ln(perplexity), `entropy > targetEntropy` is false
\* in all 50 rounds and the search ends just below sigmaHigh.
SearchEndsAtSigmaHigh(n) == n - 1 < DefaultPerplexity(n)

\* similarities[i][j] before the row is normalised (lines 213-219).
SimilarityClass(emb, i, j) ==
    IF DistSq(emb[i], emb[j]) > UnderflowDistSq THEN "zero" ELSE "pos"

\* similarities[i][j] /= sum (lines 221-224): 0 / 0 when the whole row is 0.
ConditionalClass(emb, i, j) ==
    IF \A k \in (DOMAIN emb) \ {i} : SimilarityClass(emb, i, k) = "zero"
    THEN "nan"
    ELSE SimilarityClass(emb, i, j)

\* P[i][j] = (similarities[i][j] + similarities[j][i]) / (2 * n)
JointClass(emb, i, j) ==
    IF i = j THEN "zero"
    ELSE LET a == ConditionalClass(emb, i, j)
             b == ConditionalClass(emb, j, i)
         IN  IF a = "nan" \/ b = "nan" THEN "nan"
             ELSE IF a = "zero" /\ b = "zero" THEN "zero"
             ELSE "pos"

JointMatrix(emb) == [i \in DOMAIN emb |-> [j \in DOMAIN emb |-> JointClass(emb, i, j)]]

\* The first k values of a stream after `acc`, with the state it is left in.
RECURSIVE RngDrawsRun(_, _, _)
RngDrawsRun(st, k, acc) ==
    IF k = 0 THEN [state |-> st, values |-> acc]
    ELSE LET r == RngNext(st)
             drawn == Append(acc, r.value)
         IN  IF Len(drawn) > 0 /\ r.state[1] >= 0
             THEN RngDrawsRun(r.state, k - 1, drawn)
             ELSE [state |-> st, values |-> acc]

\* The same, run by run of `run` draws.
RECURSIVE RngDrawsBy(_, _, _, _)
RngDrawsBy(st, k, acc, run) ==
    IF k = 0 THEN [state |-> st, values |-> acc]
    ELSE LET d == RngDrawsRun(st, Min(k, run), acc)
         IN  IF Len(d.values) > 0 /\ d.state[1] >= 0
             THEN RngDrawsBy(d.state, k - Min(k, run), d.values, run)
             ELSE d

RngDraws(st, k, acc) == RngDrawsBy(st, k, acc, RunLength(k))

\* Y[i] = [(rng.next() - 0.5) * 0.01, (rng.next() - 0.5) * 0.01]
InitialLayout(n, values) ==
    [i \in 1..n |-> <<Fin({SeededDraw(2 * i - 1, values[2 * i - 1])}),
                      Fin({SeededDraw(2 * i, values[2 * i])})>>]

\* gradient[i][d]: the sum over j # i of (exaggeration * P[i][j] - Q[i][j])
\* times a coordinate difference.  Q is finite for a finite layout.
GradientClass(P, i) ==
    IF \E j \in (DOMAIN P) \ {i} : P[i][j] = "nan" THEN "nan" ELSE "fin"

\* Every draw a value computed from the whole layout and the steps depends on.
AllDeps(Y, St) ==
    UNION {Y[i][d].deps \cup St[i][d].deps : i \in DOMAIN Y, d \in 1..2}

\* YStep[i][d] after lines 338-344: momentum * YStep - eta * gain * gradient,
\* clamped to +-50 (the clamp keeps a NaN).
NextStep(P, Y, St, i, d) ==
    IF GradientClass(P, i) = "nan" \/ St[i][d].cls = "nan"
    THEN NaN
    ELSE Fin(AllDeps(Y, St))

\* Y[i][d] += YStep[i][d]
Moved(P, Y, St, i, d) ==
    IF NextStep(P, Y, St, i, d).cls = "nan" \/ Y[i][d].cls = "nan"
    THEN NaN
    ELSE Fin(AllDeps(Y, St))

\* The test of line 352.
NotFinite(P, Y, St, i) ==
    Moved(P, Y, St, i, 1).cls # "fin" \/ Moved(P, Y, St, i, 2).cls # "fin"

\* Lines 352-358: a point with a non-finite coordinate is placed at
\* (Math.random() - 0.5) * 0.01 on both axes, any other is clamped to +-1000.
Placed(P, Y, St, it, i, d, random) ==
    IF NotFinite(P, Y, St, i)
    THEN Fin({ExternalDraw(it, i, d, random[i][d])})
    ELSE Moved(P, Y, St, i, d)

\* Lines 361-373: the mean of every axis is subtracted.
Centered(placed) ==
    [i \in DOMAIN placed |->
        [d \in 1..2 |-> Fin(UNION {placed[j][d].deps : j \in DOMAIN placed})]]

TsneDatasets == UNION {[1..n -> [1..1 -> {0, 40000}]] : n \in 0..MaxTsneN}

InitTsne ==
    /\ called = "tSNE"
    /\ embeddings \in TsneDatasets
    /\ OrchIdle
    /\ RngIdle
    /\ SeedIdle
    /\ tPc = "idle"
    /\ tCall = 1
    /\ tIterations \in 1..MaxTsneIterations
    /\ tIter = 0
    /\ tP = <<>>
    /\ tY = <<>>
    /\ tStep = <<>>
    /\ tExt = 0
    /\ tOut = <<>>
    /\ tFirst = NoCall
    /\ ProjectorsIdle

\* What a call that has returned leaves for the history.
Finished(out) ==
    IF tCall = 1
    THEN [emb |-> embeddings, iterations |-> tIterations, points |-> out]
    ELSE tFirst

\* Lines 124-269: the short-circuit returns; else the distances, P, the
\* seeded stream, the initial layout and the zero steps.
TsneStart ==
    /\ tPc = "idle"
    /\ LET n == Len(embeddings)
       IN  IF n <= 1
           THEN /\ tOut' = IF n = 0 THEN <<>> ELSE SinglePoint(documents)
                /\ tFirst' = Finished(tOut')
                /\ tPc' = "done"
                /\ UNCHANGED <<tP, tY, tStep, rngVars>>
           ELSE /\ SearchEndsAtSigmaHigh(n)
                /\ tP' = JointMatrix(embeddings)
                /\ rngInitial' = generateSeed(embeddings)
                /\ LET drawn == RngDraws(SeededRandom(rngInitial'), 2 * n, <<>>)
                   IN  /\ rngSeed' = drawn.state
                       /\ rngLast' = drawn.values[2 * n]
                       /\ tY' = InitialLayout(n, drawn.values)
                /\ rngCalls' = 2 * n
                /\ tStep' = [i \in 1..n |-> <<Fin({}), Fin({})>>]
                /\ tPc' = "descent"
                /\ UNCHANGED <<tOut, tFirst>>
    /\ UNCHANGED <<tCall, tIterations, tIter, tExt, orchVars, seedVars>>
    /\ UNCHANGED projectorVars

\* Lines 275-374: one round of the gradient descent.
TsneIterate ==
    /\ tPc = "descent"
    /\ tIter < tIterations
    /\ LET reset == {i \in DOMAIN tY : NotFinite(tP, tY, tStep, i)}
       IN  \E random \in [reset -> [1..2 -> 0..(RandomOutcomes - 1)]] :
              /\ tY' = Centered([i \in DOMAIN tY |->
                           [d \in 1..2 |-> Placed(tP, tY, tStep, tIter, i, d, random)]])
              /\ tExt' = tExt + 2 * Cardinality(reset)
    /\ tStep' = [i \in DOMAIN tY |-> [d \in 1..2 |-> NextStep(tP, tY, tStep, i, d)]]
    /\ tIter' = tIter + 1
    /\ UNCHANGED <<tPc, tCall, tIterations, tP, tOut, tFirst, orchVars, rngVars,
                   seedVars>>
    /\ UNCHANGED projectorVars

\* Lines 376-388.
TsneReturn ==
    /\ tPc = "descent"
    /\ tIter = tIterations
    /\ tOut' = [k \in DOMAIN tY |-> MakePoint(tY[k][1], tY[k][2], documents, k - 1)]
    /\ tFirst' = Finished(tOut')
    /\ tPc' = "done"
    /\ UNCHANGED <<tCall, tIterations, tIter, tP, tY, tStep, tExt, orchVars,
                   rngVars, seedVars>>
    /\ UNCHANGED projectorVars

\* The caller calls tSNE once more, on the same or on another dataset.
TsneCallAgain ==
    /\ tPc = "done"
    /\ tCall = 1
    /\ embeddings' \in TsneDatasets
    /\ tIterations' \in 1..MaxTsneIterations
    /\ tCall' = 2
    /\ tPc' = "idle"
    /\ tIter' = 0
    /\ tP' = <<>>
    /\ tY' = <<>>
    /\ tStep' = <<>>
    /\ tExt' = 0
    /\ tOut' = <<>>
    /\ UNCHANGED <<tFirst, orchLocals, rngVars, seedVars>>
    /\ UNCHANGED projectorVars

NextTsne ==
    \/ TsneStart
    \/ TsneIterate
    \/ TsneReturn
    \/ TsneCallAgain

SpecTsne == InitTsne /\ [][NextTsne]_vars

\* C8: two independent runs of an algorithm on identical input vectors with
\* identical explicit options return identical output coordinates, whatever
\* other projection calls ran before or in between; every random value a run
\* consumes comes from the stream seeded by the input vectors and from no
\* external entropy source.  Stated for tSNE: the second call returns what
\* the first one returned for the same arguments.
C8_Deterministic ==
    (tPc = "done" /\ tCall = 2 /\ embeddings = tFirst.emb
        /\ tIterations = tFirst.iterations)
        => tOut = tFirst.points

(***************************************************************************)
(* SpecShuffle: seededShuffle(array, rng) on a stream that has already     *)
(* been drawn from any number of times.                                    *)
(***************************************************************************)
\* The bound on the length of the shuffled array.
MaxShuffleLen == 3

\* Math.floor(rng.next() * (i + 1)), for the numerator `value` of what next()
\* returned.  The product value * (i + 1) / 2^32 has fewer than 53
\* significant bits, so the floating-point product is the exact one.
SwapIndex(value, i) ==
    ((value.hi * (i + 1)) + ((value.lo * (i + 1)) \div Half)) \div Half

\* Mutant: the element at i is overwritten before it is saved.
Swap_Overwrite(array, i, j) == [array EXCEPT ![i + 1] = array[j + 1]]

\* [array[i], array[j]] = [array[j], array[i]]  (i and j are 0-based)
Swap(array, i, j) ==
    [array EXCEPT ![i + 1] = array[j + 1], ![j + 1] = array[i + 1]]

ShuffleElements == {0, 1, 2}
ShuffleArrays == UNION {[1..len -> ShuffleElements] : len \in 0..MaxShuffleLen}
\* The datasets the stream is seeded from.
ShuffleDatasets == {<<>>} \cup {<<<<c>>>> : c \in CoordChoices}

InitShuffle ==
    /\ called = "seededShuffle"
    /\ embeddings \in ShuffleDatasets
    /\ OrchIdle
    /\ SeedIdle
    /\ TsneIdle
    /\ rngInitial = generateSeed(embeddings)
    /\ rngSeed = SeededRandom(rngInitial)
    /\ rngCalls = 0
    /\ rngLast = [hi |-> 0, lo |-> 0]
    /\ shPc = "idle"
    /\ shArray \in ShuffleArrays
    /\ shBefore = <<>>
    /\ shI = 0
    /\ shJ = <<>>
    /\ shCalls = 0
    /\ UmapIdle
    /\ PcaIdle
    /\ ScheduleIdle
    /\ GainsIdle
    /\ AuxIdle

\* The stream is drawn from by the caller before seededShuffle is called.
DrawBefore ==
    /\ shPc = "idle"
    /\ CallNext

\* Entry and `let i = array.length - 1`.
ShuffleStart ==
    /\ shPc = "idle"
    /\ shPc' = "loop"
    /\ shBefore' = shArray
    /\ shI' = Len(shArray) - 1
    /\ shCalls' = rngCalls
    /\ UNCHANGED <<shArray, shJ, orchVars, rngVars, seedVars, tsneVars>>
    /\ UNCHANGED <<umapVars, pcaVars, scheduleVars, gainVars, auxVars, called>>

\* One round of the loop: i > 0, the draw, the swap, i--.
ShuffleStep ==
    /\ shPc = "loop"
    /\ shI > 0
    /\ LET r == RngNext(rngSeed)
           j == SwapIndex(r.value, shI)
       IN  /\ rngSeed' = r.state
           /\ rngLast' = r.value
           /\ shJ' = Append(shJ, <<shI, j>>)
           /\ shArray' = Swap(shArray, shI, j)
    /\ rngCalls' = rngCalls + 1
    /\ shI' = shI - 1
    /\ UNCHANGED <<shPc, shBefore, shCalls, rngInitial, orchVars, seedVars, tsneVars>>
    /\ UNCHANGED <<umapVars, pcaVars, scheduleVars, gainVars, auxVars, called>>

\* The loop condition fails: seededShuffle returns.
ShuffleReturn ==
    /\ shPc = "loop"
    /\ shI <= 0
    /\ shPc' = "done"
    /\ UNCHANGED <<shArray, shBefore, shI, shJ, shCalls, orchVars, rngVars,
                   seedVars, tsneVars>>
    /\ UNCHANGED <<umapVars, pcaVars, scheduleVars, gainVars, auxVars, called>>

NextShuffle ==
    \/ DrawBefore
    \/ ShuffleStart
    \/ ShuffleStep
    \/ ShuffleReturn

SpecShuffle == InitShuffle /\ [][NextShuffle]_vars

\* The number of positions of `array` holding e.
Occurrences(array, e) == Cardinality({k \in DOMAIN array : array[k] = e})

\* C11: seededShuffle permutes in place: at every point of the call the array
\* has the length and the multiset of elements it had at the call; every swap
\* index j chosen at step i satisfies 0 <= j <= i; an array of length 0 or 1
\* is returned unchanged and no draw is consumed for it.
C11_ShufflePermutes ==
    shPc \in {"loop", "done"} =>
        /\ Len(shArray) = Len(shBefore)
        /\ \A e \in ShuffleElements :
              Occurrences(shArray, e) = Occurrences(shBefore, e)
        /\ \A k \in DOMAIN shJ : 0 <= shJ[k][2] /\ shJ[k][2] <= shJ[k][1]
        /\ (shPc = "done" /\ Len(shBefore) <= 1) =>
              (shArray = shBefore /\ rngCalls = shCalls /\ shJ = <<>>)

C11_Witness ==
    /\ shPc = "done"
    /\ Len(shBefore) = 3
    /\ shArray # shBefore
    /\ Len(shJ) = 2
    /\ shCalls > 0

(***************************************************************************)
(* The sums of the probabilities of tSNE, by class.                        *)
(***************************************************************************)
\* The sum over j # i of similarities[i][j] after line 223: every entry was
\* divided by the row's sum, so the entries add up to 1 when that sum is
\* positive, and every entry is 0 / 0 when it is 0.
ConditionalRowSum(emb, i) ==
    IF \E j \in (DOMAIN emb) \ {i} : SimilarityClass(emb, i, j) = "pos"
    THEN "one"
    ELSE "nan"

\* The sum over i # j of P[i][j]: every row of the conditional matrix enters
\* it twice, divided by 2 * n.
JointSum(emb) ==
    IF \A i \in DOMAIN emb : ConditionalRowSum(emb, i) = "one"
    THEN "one"
    ELSE "nan"

\* C12: before the optimisation begins, the joint probability matrix P of
\* tSNE is symmetric, has a zero diagonal, and its entries P[i][j], i # j,
\* sum to 1, for every dataset with n >= 2.
C12_JointSumsToOne ==
    tPc = "descent" =>
        /\ \A i, j \in DOMAIN tP : tP[i][j] = tP[j][i]
        /\ \A i \in DOMAIN tP : tP[i][i] = "zero"
        /\ \A i, j \in DOMAIN tP : tP[i][j] # "nan"
        /\ JointSum(embeddings) = "one"

(***************************************************************************)
(* SpecUmap: uMAP, step by step.  Probabilities are kept as numerators     *)
(* over a fixed denominator, layout coordinates by their IEEE-754 class.   *)
(***************************************************************************)
\* uMAP is called on datasets of at most MaxUmapN vectors,
MaxUmapN == 3
\* with options.nEpochs in 1..MaxUmapEpochs;
MaxUmapEpochs == 1
\* a membership probability is one of 0, 1/ProbScale, .., 1.
ProbScale == 2
\* options?.negativeSampleRate ?? 5
NegativeSampleRate == 5

\* Math.floor(Math.sqrt(n))
ISqrt(n) == CHOOSE r \in 0..n : r * r <= n /\ (r + 1) * (r + 1) > n

\* The default of nNeighbors.  Math.sqrt of a negative number is NaN, and
\* so is Math.floor(10 + NaN / 3); floor(10 + sqrt(m) / 3) is
\* 10 + floor(sqrt(m div 9)) otherwise.
DefaultNeighbors(n) ==
    IF n < 50 THEN Num(Max(3, Min(8, ISqrt(n))))
    ELSE IF n < 200
    THEN IF n - 100 < 0 THEN NaNNumber ELSE Num(10 + ISqrt((n - 100) \div 9))
    ELSE Num(Min(15, n \div 50))

\* options?.nNeighbors ?? (...)
Neighbors(opt, n) ==
    IF opt.nNeighbors.given THEN Num(opt.nNeighbors.val) ELSE DefaultNeighbors(n)

\* options?.nEpochs ?? (n < 1000 ? 500 : 200)
Epochs(opt, n) ==
    IF opt.nEpochs.given THEN opt.nEpochs.val ELSE IF n < 1000 THEN 500 ELSE 200

\* The length of neighbors.slice(0, Math.min(nNeighbors, neighbors.length)):
\* Math.min with a NaN operand is NaN, and slice(0, NaN) is slice(0, 0).
KnnCount(k, available) == IF k.nan THEN 0 ELSE Min(k.val, available)

\* The points other than i (0-based), and distances[i][j] squared.
Others(emb, i) == (0..(Len(emb) - 1)) \ {i}
Dist2(emb, i, j) == DistSq(emb[i + 1], emb[j + 1])

\* neighbors.sort((a, b) => a.dist - b.dist): the sort is stable, and the
\* candidates were pushed by ascending index.
SortsBefore(emb, i, a, b) ==
    \/ Dist2(emb, i, a) < Dist2(emb, i, b)
    \/ Dist2(emb, i, a) = Dist2(emb, i, b) /\ a < b

Rank(emb, i, j) == Cardinality({a \in Others(emb, i) : SortsBefore(emb, i, a, j)})

\* knnIndices[i]
NearestNeighbors(emb, i, k) ==
    IF k = 0 THEN <<>>
    ELSE [r \in 1..k |-> CHOOSE j \in Others(emb, i) : Rank(emb, i, j) = r - 1]

KnnIndices(emb, k) ==
    [p \in 1..Len(emb) |->
        NearestNeighbors(emb, p - 1, KnnCount(k, Len(emb) - 1))]

\* The pairs <<i, r>>: point i (0-based) and the position r of a neighbour in
\* knnIndices[i].
Slots(knn) == {<<i, r>> \in (0..(Len(knn) - 1)) \X (1..Len(knn)) :
                  r <= Len(knn[i + 1])}

\* The positive squared distances between a point and one of its neighbours.
NeighborDistances(emb, knn) ==
    {Dist2(emb, s[1], knn[s[1] + 1][s[2]]) : s \in Slots(knn)} \ {0}

\* Math.exp(-neighborDists[j] / sigmas[i]), as a numerator over ProbScale.
\* sigmas[i] is the outcome of a bisection in floating point; the model
\* admits, for every point, every non-increasing map `level` from the positive
\* distances to the values below 1 (0 on underflow).  At distance 0 the
\* exponential is exactly 1.
Monotone(level) ==
    \A p \in DOMAIN level :
        \A d, e \in DOMAIN level[p] : d < e => level[p][e] <= level[p][d]

Membership(emb, level, i, nj) ==
    IF Dist2(emb, i, nj) = 0 THEN ProbScale
    ELSE level[i + 1][Dist2(emb, i, nj)]

\* Mutant: the product term of the symmetrisation is missing.
Combine_Sum(existing, p) == existing + p * ProbScale

\* existing + pGivenJ - existing * pGivenJ, with `existing` a numerator over
\* ProbScale^2 (0 or the first contribution, a multiple of ProbScale).
Combine(existing, p) ==
    existing + p * ProbScale - (existing * p) \div ProbScale

\* pGivenJ of line 130 for every neighbour position of every point.
Memberships(emb, knn, level) ==
    [p \in DOMAIN knn |->
        [r \in DOMAIN knn[p] |-> Membership(emb, level, p - 1, knn[p][r])]]

\* Mutant: the key keeps the direction of the neighbour relation.
EdgeKey_Directed(i, nj) == <<i, nj>>

\* const key = i < nj ? `${i}-${nj}` : `${nj}-${i}`
EdgeKey(i, nj) == IF i < nj THEN <<i, nj>> ELSE <<nj, i>>

\* graph.set(key, ...) on the entries kept in insertion order.
GraphSet(graph, key, p) ==
    IF \E e \in DOMAIN graph : graph[e].key = key
    THEN [e \in DOMAIN graph |->
            IF graph[e].key = key
            THEN [graph[e] EXCEPT !.weight = Combine(graph[e].weight, p)]
            ELSE graph[e]]
    ELSE Append(graph, [key |-> key, weight |-> Combine(0, p)])

\* The double loop of lines 124-136 from point i, neighbour position r on.
\* After the last neighbour of i the loop goes on at the next point that has
\* neighbours: the points without any contribute no iteration of the body.
RECURSIVE GraphFrom(_, _, _, _, _, _)
GraphFrom(graph, emb, knn, level, i, r) ==
    IF i >= Len(knn) THEN graph
    ELSE IF r > Len(knn[i + 1])
         THEN LET later == {p \in (i + 1)..(Len(knn) - 1) : Len(knn[p + 1]) > 0}
                  next == IF later = {} THEN Len(knn)
                          ELSE CHOOSE p \in later : \A q \in later : p <= q
              IN  IF next > 0 THEN GraphFrom(graph, emb, knn, level, next, 1)
                  ELSE graph
    ELSE LET nj == knn[i + 1][r]
             g == GraphSet(graph, EdgeKey(i, nj), Membership(emb, level, i, nj))
         IN  IF Len(g) > 0 THEN GraphFrom(g, emb, knn, level, i, r + 1) ELSE g

\* Lines 139-146: the entries with weight > 0, as edges.
RECURSIVE EdgesFrom(_, _)
EdgesFrom(graph, e) ==
    IF e > Len(graph) THEN <<>>
    ELSE LET rest == EdgesFrom(graph, e + 1)
             edge == [source |-> graph[e].key[1], target |-> graph[e].key[2],
                      weight |-> graph[e].weight]
         IN  IF graph[e].weight > 0 THEN <<edge>> \o rest ELSE rest

Edges(emb, knn, level) == EdgesFrom(GraphFrom(<<>>, emb, knn, level, 0, 1), 1)

\* seededShuffle(array, rng) as one call: the array and the stream after it.
RECURSIVE ShuffleFrom(_, _, _)
ShuffleFrom(array, st, i) ==
    IF i <= 0 THEN [array |-> array, state |-> st]
    ELSE LET r == RngNext(st)
             a == Swap(array, i, SwapIndex(r.value, i))
         IN  IF r.value.lo >= 0 THEN ShuffleFrom(a, r.state, i - 1)
             ELSE [array |-> array, state |-> st]

seededShuffle(array, st) == ShuffleFrom(array, st, Len(array) - 1)

\* learningRate * (1 - epoch / nEpochs): the factor is positive in every
\* epoch, so alpha is infinite exactly when learningRate is.
AlphaClass(opt) == IF opt.learningRate = "inf" THEN "inf" ELSE "fin"

\* One update `Y[a][d] += alpha * grad * weight; Y[b][d] -= alpha * grad *
\* weight` (a and b 0-based).  With alpha infinite the increment is infinite,
\* or NaN for a zero gradient; with a non-finite endpoint the squared
\* distance is infinite or NaN, the coefficient 0 or NaN, and grad = 0 *
\* Infinity is NaN.  Nothing tests the result.
Interact(Y, a, b, alpha) ==
    IF alpha = "inf" \/ Y[a + 1] = "nonfin" \/ Y[b + 1] = "nonfin"
    THEN [Y EXCEPT ![a + 1] = "nonfin", ![b + 1] = "nonfin"]
    ELSE Y

\* alpha * grad * weight of one update, for either axis d: grad is computed
\* in lines 195 and 215 from Y[j][d] - Y[other][d] as it is before the update
\* writes anything.  `ord` is the position of the update in its epoch.
Displacement(kind, j, other, ord) ==
    [kind |-> kind, from |-> j, to |-> other, ord |-> ord, diff |-> "before"]

\* Mutant: the displacement of the second point is computed again, after the
\* first point has moved.
Subtracted_Recomputed(term) == [term EXCEPT !.diff = "after"]

\* What lines 197 and 217 subtract: the same alpha * grad * weight.
Subtracted(term) == term

\* One update: Y[plus][d] += added; Y[minus][d] -= subtracted.
Move(kind, edgeIdx, j, other, ord) ==
    [kind |-> kind, edge |-> edgeIdx, plus |-> j, minus |-> other,
     added |-> Displacement(kind, j, other, ord),
     subtracted |-> Subtracted(Displacement(kind, j, other, ord))]

\* Mutant: a sample that is the source or the target is used like any other.
Skipped_Never(negIdx, j, k) == FALSE

\* if (negIdx === j || negIdx === k) continue;
Skipped(negIdx, j, k) == negIdx = j \/ negIdx = k

\* Mutant: the edges are taken in the order of the edge array.
ProcessedEdge_Unshuffled(indices, idx) == idx - 1

\* const edgeIdx = indices[idx]  (idx is 1-based here)
ProcessedEdge(indices, idx) == indices[idx]

\* Mutant: the schedule is one epoch ahead.
LearningFactor_Ahead(epoch, nEpochs) ==
    [num |-> nEpochs - (epoch + 1), den |-> nEpochs]

\* 1 - epoch / nEpochs of line 177, as a fraction.
LearningFactor(epoch, nEpochs) == [num |-> nEpochs - epoch, den |-> nEpochs]

RECURSIVE NegativeSamples(_, _, _, _, _, _)
\* One negative sample, lines 203-219, for the value r that next() returned,
\* and the samples after it.  `lay` holds Y, the updates made in this epoch
\* so far and the state of the seeded stream.
SampleDrawn(lay, r, negIdx, edgeIdx, j, k, alpha, neg) ==
    IF r.state[1] < 0 THEN lay
    ELSE IF Skipped(negIdx, j, k)
    THEN NegativeSamples([lay EXCEPT !.state = r.state], edgeIdx, j, k, alpha,
                         neg + 1)
    ELSE NegativeSamples([Y |-> Interact(lay.Y, j, negIdx, alpha),
                          moves |-> Append(lay.moves,
                                           Move("repel", edgeIdx, j, negIdx,
                                                Len(lay.moves) + 1)),
                          state |-> r.state],
                         edgeIdx, j, k, alpha, neg + 1)

\* const negIdx = Math.floor(rng.next() * n)
SampleIndexed(lay, r, edgeIdx, j, k, alpha, neg) ==
    SampleDrawn(lay, r, SwapIndex(r.value, Len(lay.Y) - 1), edgeIdx, j, k, alpha,
                neg)

\* The negative samples of one edge, from sample `neg` on.
NegativeSamples(lay, edgeIdx, j, k, alpha, neg) ==
    IF neg >= NegativeSampleRate THEN lay
    ELSE SampleIndexed(lay, RngNext(lay.state), edgeIdx, j, k, alpha, neg)

RECURSIVE EdgeUpdates(_, _, _, _, _)
\* The edges after the one at idx, `after` being the layout its updates left.
EdgesAfter(after, edges, indices, alpha, idx) ==
    IF after.state[1] >= 0
    THEN EdgeUpdates(after, edges, indices, alpha, idx + 1)
    ELSE after

\* Lines 180-220 for the edge edgeIdx.
EdgeUpdated(lay, edge, edgeIdx, alpha) ==
    NegativeSamples([Y |-> Interact(lay.Y, edge.source, edge.target, alpha),
                     moves |-> Append(lay.moves,
                                      Move("attract", edgeIdx, edge.source,
                                           edge.target, Len(lay.moves) + 1)),
                     state |-> lay.state],
                    edgeIdx, edge.source, edge.target, alpha, 0)

\* The loop over idx of one epoch, from idx on.
EdgeUpdates(lay, edges, indices, alpha, idx) ==
    IF idx > Len(indices) THEN lay
    ELSE EdgesAfter(EdgeUpdated(lay, edges[ProcessedEdge(indices, idx) + 1],
                                ProcessedEdge(indices, idx), alpha),
                    edges, indices, alpha, idx)

\* The next() calls of one epoch.
EpochDraws(edgeCount) ==
    Max(edgeCount - 1, 0) + edgeCount * NegativeSampleRate

UmapCoords == {0, 1}
\* The small datasets: one-dimensional, the coordinates in non-decreasing
\* order (equal points, ties of distance, and neighbours that the sort moves).
UmapSmallDatasets ==
    {emb \in UNION {[1..n -> [1..1 -> UmapCoords]] : n \in 0..MaxUmapN} :
        \A p \in 1..(Len(emb) - 1) : emb[p][1] <= emb[p + 1][1]}
\* The options of a call: the defaults of nNeighbors and learningRate, an
\* infinite learningRate, a given nNeighbors; nEpochs is given, its default
\* (200 or 500) is taken with the larger datasets below.
UmapOptionChoices ==
    {[NoOptions EXCEPT !.nEpochs = Given(MaxUmapEpochs)],
     [NoOptions EXCEPT !.nEpochs = Given(MaxUmapEpochs), !.learningRate = "inf"],
     [NoOptions EXCEPT !.nEpochs = Given(MaxUmapEpochs), !.nNeighbors = Given(1)]}
\* Sizes of the middle branch of the default of nNeighbors, below 100.
UmapMiddleSizes == {50, 99}

InitUmap ==
    /\ called = "uMAP"
    /\ \/ embeddings \in UmapSmallDatasets /\ uOptions \in UmapOptionChoices
       \/ embeddings \in {Vectors(n) : n \in UmapMiddleSizes} /\ uOptions = NoOptions
    /\ OrchIdle
    /\ RngIdle
    /\ SeedIdle
    /\ TsneIdle
    /\ ShuffleIdle
    /\ PcaIdle
    /\ ScheduleIdle
    /\ GainsIdle
    /\ AuxIdle
    /\ uPc = "idle"
    /\ uK = Num(0)
    /\ uKnn = <<>>
    /\ uEdges = <<>>
    /\ uIndices = <<>>
    /\ uY = <<>>
    /\ uEpoch = 0
    /\ uOut = <<>>
    /\ uGiven = <<>>
    /\ uAlpha = NoAlpha
    /\ uMoves = <<>>

umapFrame == <<orchVars, seedVars, tsneVars, shuffleVars, pcaVars, scheduleVars,
               gainVars, auxVars, called>>

\* Lines 13-48: the short-circuit returns, the seeded stream, nNeighbors.
UmapStart ==
    /\ uPc = "idle"
    /\ LET n == Len(embeddings)
       IN  IF n <= 1
           THEN /\ uOut' = IF n = 0 THEN <<>> ELSE SinglePoint(documents)
                /\ uPc' = "done"
                /\ UNCHANGED <<uK, rngVars>>
           ELSE /\ rngInitial' = generateSeed(embeddings)
                /\ rngSeed' = SeededRandom(rngInitial')
                /\ uK' = Neighbors(uOptions, n)
                /\ uPc' = "neighbors"
                /\ UNCHANGED <<uOut, rngCalls, rngLast>>
    /\ UNCHANGED <<uOptions, uKnn, uEdges, uIndices, uY, uEpoch, uGiven, uAlpha,
                   uMoves, umapFrame>>

\* Lines 50-91: the distances and the k nearest neighbours of every point.
UmapNeighbors ==
    /\ uPc = "neighbors"
    /\ uKnn' = KnnIndices(embeddings, uK)
    /\ uPc' = "graph"
    /\ UNCHANGED <<uOptions, uK, uEdges, uIndices, uY, uEpoch, uOut, uGiven,
                   uAlpha, uMoves, rngVars, umapFrame>>

\* Lines 93-147: the bandwidths, the symmetrised memberships, the edges.
UmapGraph ==
    /\ uPc = "graph"
    /\ \E level \in [DOMAIN uKnn ->
                         [NeighborDistances(embeddings, uKnn) -> 0..(ProbScale - 1)]] :
          /\ Monotone(level)
          /\ uGiven' = Memberships(embeddings, uKnn, level)
          /\ uEdges' = Edges(embeddings, uKnn, level)
    /\ uPc' = "layout"
    /\ UNCHANGED <<uOptions, uK, uKnn, uIndices, uY, uEpoch, uOut, uAlpha, uMoves,
                   rngVars, umapFrame>>

\* Lines 149-170: the initial layout from 2 * n draws, and `indices`.
UmapLayout ==
    /\ uPc = "layout"
    /\ LET n == Len(embeddings)
           drawn == RngDraws(rngSeed, 2 * n, <<>>)
       IN  /\ rngSeed' = drawn.state
           /\ rngLast' = drawn.values[2 * n]
           /\ rngCalls' = rngCalls + 2 * n
           /\ uY' = [i \in 1..n |-> "fin"]
    /\ uIndices' = [e \in 1..Len(uEdges) |-> e - 1]
    /\ uPc' = "epochs"
    /\ UNCHANGED <<uOptions, uK, uKnn, uEdges, uEpoch, uOut, uGiven, uAlpha, uMoves,
                   rngInitial, umapFrame>>

\* Lines 172-226: one epoch: the shuffle, then every edge with its negative
\* samples.
UmapEpoch ==
    /\ uPc = "epochs"
    /\ uEpoch < Epochs(uOptions, Len(embeddings))
    /\ LET shuffled == seededShuffle(uIndices, rngSeed)
           after == EdgeUpdates([Y |-> uY, moves |-> <<>>, state |-> shuffled.state],
                                uEdges, shuffled.array, AlphaClass(uOptions), 1)
       IN  /\ uIndices' = shuffled.array
           /\ uY' = after.Y
           /\ uMoves' = after.moves
           /\ rngSeed' = after.state
    /\ uAlpha' = LearningFactor(uEpoch, Epochs(uOptions, Len(embeddings)))
    /\ rngCalls' = rngCalls + EpochDraws(Len(uEdges))
    /\ uEpoch' = uEpoch + 1
    /\ UNCHANGED <<uPc, uOptions, uK, uKnn, uEdges, uOut, uGiven, rngInitial,
                   rngLast, umapFrame>>

\* A layout coordinate, as returned.
UmapCoordinate(Y, i, axis) == [cls |-> Y[i + 1], sym |-> <<"umap", i, axis>>]

\* Lines 228-242.
UmapReturn ==
    /\ uPc = "epochs"
    /\ uEpoch = Epochs(uOptions, Len(embeddings))
    /\ uOut' = [p \in 1..Len(uY) |->
                  MakePoint(UmapCoordinate(uY, p - 1, 0), UmapCoordinate(uY, p - 1, 1),
                            documents, p - 1)]
    /\ uPc' = "done"
    /\ UNCHANGED <<uOptions, uK, uKnn, uEdges, uIndices, uY, uEpoch, uGiven,
                   uAlpha, uMoves, rngVars, umapFrame>>

NextUmap ==
    \/ UmapStart
    \/ UmapNeighbors
    \/ UmapGraph
    \/ UmapLayout
    \/ UmapEpoch
    \/ UmapReturn

SpecUmap == InitUmap /\ [][NextUmap]_vars

(***************************************************************************)
(* Claims about uMAP, checked under SpecUmap.                              *)
(***************************************************************************)
\* The graph of this call has been built.
GraphBuilt == uPc \in {"layout", "epochs"} \/ (uPc = "done" /\ Len(embeddings) >= 2)

\* C13: every edge retained in the optimisation graph of uMAP has a weight w
\* with 0 < w <= 1, for every dataset with n >= 2 and every neighbour count.
C13_EdgeWeights ==
    GraphBuilt =>
        \A e \in DOMAIN uEdges :
            /\ 0 < uEdges[e].weight
            /\ uEdges[e].weight <= ProbScale * ProbScale

\* An edge that both endpoints contributed to, beside one of full weight.
C13_Witness ==
    /\ GraphBuilt
    /\ \E e \in DOMAIN uEdges :
          /\ uEdges[e].weight < ProbScale * ProbScale
          /\ uEdges[e].weight % ProbScale # 0
    /\ \E e \in DOMAIN uEdges : uEdges[e].weight = ProbScale * ProbScale

\* C16: whenever a layout coordinate of a point becomes non-finite during the
\* optimisation of t-SNE or UMAP, the point is reset to a fresh small finite
\* position and the run continues to completion: the non-finite value is not
\* carried into later iterations or epochs, nor into the output.  Stated for
\* uMAP: after every epoch, and in the returned points, every coordinate is
\* finite.
C16_NonFiniteRecovered ==
    /\ uPc = "epochs" => \A p \in DOMAIN uY : uY[p] = "fin"
    /\ (uPc = "done" /\ Len(embeddings) >= 2) =>
          \A p \in DOMAIN uOut : uOut[p].x.cls = "fin" /\ uOut[p].y.cls = "fin"

\* The nearest-neighbour step of this call has run.
NeighborsFound ==
    uPc \in {"graph", "layout", "epochs"} \/ (uPc = "done" /\ Len(embeddings) >= 2)

\* C17: with the default neighbour count, for every n >= 2: nNeighbors is a
\* positive integer, and the nearest-neighbour step gives every point exactly
\* min(nNeighbors, n - 1) >= 1 distinct neighbours, none of them the point
\* itself, in order of non-decreasing distance.
C17_DefaultNeighbors ==
    (NeighborsFound /\ ~uOptions.nNeighbors.given) =>
        /\ ~uK.nan
        /\ uK.val >= 1
        /\ \A p \in DOMAIN uKnn :
              /\ Len(uKnn[p]) = Min(uK.val, Len(embeddings) - 1)
              /\ Len(uKnn[p]) >= 1
              /\ \A r \in DOMAIN uKnn[p] : uKnn[p][r] # p - 1
              /\ \A r, t \in DOMAIN uKnn[p] :
                    r < t =>
                        /\ uKnn[p][r] # uKnn[p][t]
                        /\ Dist2(embeddings, p - 1, uKnn[p][r])
                              <= Dist2(embeddings, p - 1, uKnn[p][t])


(***************************************************************************)
(* SpecPca: incrementalPCA called directly, step by step.  The centred     *)
(* data are kept exactly (times n); the components pc1 and pc2 and the     *)
(* projected coordinates by their IEEE-754 class.                          *)
(***************************************************************************)
\* incrementalPCA is called on datasets of at most MaxPcaN vectors
MaxPcaN == 2
\* of at most MaxPcaDim coordinates each.
MaxPcaDim == 2
\* options?.powerIterations ?? 20
DefaultPowerIterations == 20

\* const pattern = [1, 0, -1, 0]
Pattern == <<1, 0, -1, 0>>

\* pc1[i] = pattern[i % 4] (shift 0), pc2[i] = pattern[(i + 1) % 4]
\* (shift 1), before the normalisation.
InitialComponent(dim, shift) ==
    [i \in 1..dim |-> Pattern[((i - 1 + shift) % Len(Pattern)) + 1]]

\* The class of a component after lines 24-37: with a zero norm the inverse
\* is Infinity and every entry 0 * Infinity = NaN.
InitialClass(dim, shift) ==
    IF dim = 0 THEN "empty"
    ELSE IF \A i \in 1..dim : InitialComponent(dim, shift)[i] = 0 THEN "nan"
    ELSE "fin"

RECURSIVE SumOver(_, _, _)
SumOver(emb, j, i) == IF i = 0 THEN 0 ELSE emb[i][j] + SumOver(emb, j, i - 1)

\* centeredData[i][j] = vec[j] - mean[j], times n.
CenteredData(emb) ==
    [i \in DOMAIN emb |->
        [j \in DOMAIN emb[1] |-> Len(emb) * emb[i][j] - SumOver(emb, j, Len(emb))]]

\* Mutant: the centred coordinates are written into the input vectors.
VectorsAfterCentering_InPlace(emb) == CenteredData(emb)

\* Lines 56-63 read vec = embeddings[i] and write a new Float64Array.
VectorsAfterCentering(emb) == emb

RECURSIVE Dot(_, _, _)
Dot(v, w, j) == IF j = 0 THEN 0 ELSE v[j] * w[j] + Dot(v, w, j - 1)

\* Whether sum_i centered_i * (centered_i . w) is the zero vector: the sum
\* is C * w for the positive semidefinite C, and w . (C * w) is the sum of
\* the squared dot products.
ImageIsZero(centered, w) ==
    \A i \in DOMAIN centered : Dot(centered[i], w, Len(w)) = 0

\* Lines 73-94: pc1 after one round.  A NaN component stays NaN; a zero
\* image has norm 0, inverse Infinity, and 0 * Infinity = NaN.  After a
\* round that left pc1 finite, pc1 lies in the range of C and its image is
\* not zero.
PowerRound1(pc1, centered, iter) ==
    IF pc1 # "fin" THEN pc1
    ELSE IF iter > 0 THEN "fin"
    ELSE IF ImageIsZero(centered, InitialComponent(Len(centered[1]), 0)) THEN "nan"
    ELSE "fin"

\* The pc1 that lines 108-115 read: line 93 has stored this round's pc1 by
\* then.
OrthogonalizedAgainst_Previous(previous, updated) == previous

OrthogonalizedAgainst(previous, updated) == updated

\* Lines 97-125: the classes pc2 can have after one round, given the new
\* pc1.  What is left of C * pc2 after the projection on pc1 is removed is
\* the zero vector, or rounding noise, or a proper vector; the model admits
\* a zero (NaN after the division) and a non-zero outcome whenever the data
\* are not all zero.
PowerRound2(pc2, newPc1, centered) ==
    IF pc2 = "empty" THEN {"empty"}
    ELSE IF pc2 = "nan" \/ newPc1 = "nan" THEN {"nan"}
    ELSE IF \A i \in DOMAIN centered : \A j \in DOMAIN centered[i] : centered[i][j] = 0
    THEN {"nan"}
    ELSE {"fin", "nan"}

\* x (axis 0) or y (axis 1) of point i: the sum of centered[j] * pc[j].
\* With no coordinate the sum is the literal 0; a NaN component makes it
\* NaN; a zero vector times a finite component is 0.
PcaCoordinate(pcClass, centered, i, axis) ==
    IF pcClass = "empty" THEN Zero
    ELSE IF pcClass = "nan" THEN [cls |-> "nonfin", sym |-> <<"pca", i, axis>>]
    ELSE IF \A j \in DOMAIN centered[i + 1] : centered[i + 1][j] = 0 THEN Zero
    ELSE [cls |-> "fin", sym |-> <<"pca", i, axis>>]

\* options?.powerIterations ?? 20
PowerIterations(opt) ==
    IF opt.powerIterations.given THEN opt.powerIterations.val
    ELSE DefaultPowerIterations

PcaCoords == {0, 1}
PcaDatasets ==
    UNION {[1..n -> [1..d -> PcaCoords]] : n \in 0..MaxPcaN, d \in 0..MaxPcaDim}
PcaDocuments == {<<>>, <<Doc("t", "x")>>}
PcaOptionChoices == [powerIterations : {Missing, Given(0), Given(1)}]

InitPca ==
    /\ called = "incrementalPCA"
    /\ embeddings \in PcaDatasets
    /\ documents \in PcaDocuments
    /\ pOptions \in PcaOptionChoices
    /\ pc = "idle"
    /\ options = [algorithm |-> "auto"]
    /\ algorithm = ""
    /\ warning = Undefined
    /\ points = <<>>
    /\ invoked = <<>>
    /\ result = NoResult
    /\ numeric = "finite"
    /\ scan = NotScanned
    /\ RngIdle
    /\ SeedIdle
    /\ TsneIdle
    /\ ShuffleIdle
    /\ UmapIdle
    /\ ScheduleIdle
    /\ GainsIdle
    /\ AuxIdle
    /\ pPc = "idle"
    /\ pCentered = <<>>
    /\ pPc1 = "empty"
    /\ pPc2 = "empty"
    /\ pIter = 0
    /\ pOut = <<>>

pcaFrame == <<orchLocals, rngVars, seedVars, tsneVars, shuffleVars, umapVars,
              scheduleVars, gainVars, auxVars, called>>

\* Lines 10-37: n, dim and the initial components.  embeddings[0] is
\* undefined for an empty array and reading its length throws a TypeError.
PcaStart ==
    /\ pPc = "idle"
    /\ IF Len(embeddings) = 0
       THEN /\ pPc' = "threw"
            /\ UNCHANGED <<pPc1, pPc2>>
       ELSE /\ pPc1' = InitialClass(Len(embeddings[1]), 0)
            /\ pPc2' = InitialClass(Len(embeddings[1]), 1)
            /\ pPc' = "started"
    /\ UNCHANGED <<embeddings, pOptions, pCentered, pIter, pOut, pcaFrame>>

\* Lines 39-63: the mean, and the centred copy of the data.
PcaCenter ==
    /\ pPc = "started"
    /\ pCentered' = CenteredData(embeddings)
    /\ embeddings' = VectorsAfterCentering(embeddings)
    /\ pPc' = "power"
    /\ UNCHANGED <<pOptions, pPc1, pPc2, pIter, pOut, pcaFrame>>

\* Lines 71-131: one round of the power iteration.
PcaRound ==
    /\ pPc = "power"
    /\ pIter < PowerIterations(pOptions)
    /\ pPc1' = PowerRound1(pPc1, pCentered, pIter)
    /\ pPc2' \in PowerRound2(pPc2, OrthogonalizedAgainst(pPc1, pPc1'), pCentered)
    /\ pIter' = pIter + 1
    /\ UNCHANGED <<embeddings, pPc, pOptions, pCentered, pOut, pcaFrame>>

\* Lines 133-155.
PcaReturn ==
    /\ pPc = "power"
    /\ pIter = PowerIterations(pOptions)
    /\ pOut' = [p \in 1..Len(embeddings) |->
                  MakePoint(PcaCoordinate(pPc1, pCentered, p - 1, 0),
                            PcaCoordinate(pPc2, pCentered, p - 1, 1),
                            documents, p - 1)]
    /\ pPc' = "done"
    /\ UNCHANGED <<embeddings, pOptions, pCentered, pPc1, pPc2, pIter, pcaFrame>>

NextPca ==
    \/ PcaStart
    \/ PcaCenter
    \/ PcaRound
    \/ PcaReturn

SpecPca == InitPca /\ [][NextPca]_vars

\* C14: each of the three projectors, invoked directly, handles the trivial
\* inputs without running its algorithm and without raising an error: for
\* n = 0 it returns an empty result, for n = 1 a single point at (0, 0).
\* Stated for incrementalPCA: the call does not throw, no round of the power
\* iteration runs, and what it returns is empty (n = 0) or the single point
\* at (0, 0) (n = 1).
C14_TrivialInputs ==
    Len(embeddings) <= 1 =>
        /\ pPc # "threw"
        /\ pIter = 0
        /\ pPc = "done" =>
              pOut = IF Len(embeddings) = 0 THEN <<>> ELSE SinglePoint(documents)


(***************************************************************************)
(* SpecCalls: one projection call, of projectTo2D or of a projector        *)
(* directly, followed from the call to its return.                         *)
(***************************************************************************)
InitCalls ==
    \/ Init
    \/ InitTsne /\ tIterations = 1
    \/ InitUmap
    \/ InitPca

NextCalls ==
    \/ called = "projectTo2D" /\ Next
    \/ called = "tSNE" /\ (TsneStart \/ TsneIterate \/ TsneReturn)
    \/ called = "uMAP" /\ NextUmap
    \/ called = "incrementalPCA" /\ NextPca

SpecCalls == InitCalls /\ [][NextCalls]_vars

\* C18: input immutability.  No step of a projection call (projectTo2D or
\* one of the three projectors) changes the caller's vectors or labels, so
\* after the call every coordinate and every label field has the value it
\* had before.
C18_InputsUnchanged ==
    [][embeddings' = embeddings /\ documents' = documents]_vars

\* incrementalPCA has returned for a dataset it had to centre: the centred
\* data differ from the vectors, which are still the caller's.
C18_Witness ==
    /\ called = "incrementalPCA"
    /\ pPc = "done"
    /\ Len(embeddings) >= 2
    /\ \E i \in DOMAIN embeddings : pCentered[i] # embeddings[i]
    /\ embeddings \in PcaDatasets


(***************************************************************************)
(* SpecSchedule: the exaggeration and the momentum of every round of       *)
(* tSNE's descent loop.  Both are kept in tenths (4.0 is 40).               *)
(***************************************************************************)
\* options?.iterations ?? (n < 200 ? 1500 : 1000)
Iterations(opt, n) ==
    IF opt.iterations.given THEN opt.iterations.val
    ELSE IF n < 200 THEN 1500 ELSE 1000

\* options?.earlyExaggeration ?? 4.0
EarlyExaggeration(opt) ==
    IF opt.earlyExaggeration.given THEN opt.earlyExaggeration.val ELSE 40

\* options?.momentum ?? 0.8
Momentum(opt) == IF opt.momentum.given THEN opt.momentum.val ELSE 8

\* Mutant: the exaggerated phase includes round 350 (250).
Exaggeration_Inclusive(iter, n, opt) ==
    IF iter <= (IF n < 200 THEN 350 ELSE 250) THEN EarlyExaggeration(opt) ELSE 10

\* (iter < (n < 200 ? 350 : 250)) ? earlyExaggeration : 1.0
Exaggeration(iter, n, opt) ==
    IF iter < (IF n < 200 THEN 350 ELSE 250) THEN EarlyExaggeration(opt) ELSE 10

\* (iter < 20) ? 0.5 : momentum
CurrentMomentum(iter, opt) == IF iter < 20 THEN 5 ELSE Momentum(opt)

\* The sizes around the boundary n = 200, and the smallest dataset that
\* reaches the loop.
ScheduleSizes == {2, 199, 200}
ScheduleOptionChoices ==
    [iterations : {Missing, Given(25)},
     earlyExaggeration : {Missing, Given(120)},
     momentum : {Missing, Given(9)}]

InitSchedule ==
    /\ called = "tSNE"
    /\ embeddings \in {Vectors(n) : n \in ScheduleSizes}
    /\ sOptions \in ScheduleOptionChoices
    /\ sIter = 0
    /\ sExaggeration = 0
    /\ sMomentum = 0
    /\ OrchIdle
    /\ RngIdle
    /\ SeedIdle
    /\ TsneIdle
    /\ ShuffleIdle
    /\ UmapIdle
    /\ PcaIdle
    /\ GainsIdle
    /\ AuxIdle

\* Lines 275 and 313-314: a round of the loop begins.
ScheduleRound ==
    /\ sIter < Iterations(sOptions, Len(embeddings))
    /\ sExaggeration' = Exaggeration(sIter, Len(embeddings), sOptions)
    /\ sMomentum' = CurrentMomentum(sIter, sOptions)
    /\ sIter' = sIter + 1
    /\ UNCHANGED <<sOptions, orchVars, rngVars, seedVars, tsneVars, shuffleVars,
                   umapVars, pcaVars, gainVars, auxVars, called>>

NextSchedule == ScheduleRound

SpecSchedule == InitSchedule /\ [][NextSchedule]_vars

\* C19: in round iter of the descent the exaggeration is the early
\* exaggeration factor (default 4.0) for iter < T, with T = 350 if n < 200
\* and 250 otherwise, and 1.0 for every iter >= T; the momentum is 0.5 for
\* iter < 20 and the configured momentum (default 0.8) afterwards.
C19_Schedule ==
    sIter > 0 =>
        LET iter == sIter - 1
            T == IF Len(embeddings) < 200 THEN 350 ELSE 250
            early == IF sOptions.earlyExaggeration.given
                     THEN sOptions.earlyExaggeration.val ELSE 40
            configured == IF sOptions.momentum.given
                          THEN sOptions.momentum.val ELSE 8
        IN  /\ iter < T => sExaggeration = early
            /\ iter >= T => sExaggeration = 10
            /\ iter < 20 => sMomentum = 5
            /\ iter >= 20 => sMomentum = configured

\* Round 350 of a dataset of fewer than 200 vectors, with the defaults: the
\* first round with exaggeration 1.0.
C19_Witness ==
    /\ sIter = 351
    /\ Len(embeddings) = 199
    /\ sOptions = NoTsneOptions
    /\ sExaggeration = 10
    /\ sMomentum = 8


(***************************************************************************)
(* SpecGains: the gain of one point and one dimension through the rounds   *)
(* of tSNE's descent loop.  The gain is kept in millionths, a product      *)
(* rounded down; the gradient and the step by their sign as Math.sign      *)
(* tells it: "neg", "zero" (0 and -0 are === equal), "pos" or "nan".       *)
(***************************************************************************)
\* The descent is followed for at most MaxGainRounds rounds,
MaxGainRounds == 24
\* of which at most MaxBoosts add to the gain.
MaxBoosts == 2

\* gains[i] = [1.0, 1.0]
InitialGain == 1000000
\* gains[i][d] + 0.2
GainIncrement == 200000
\* const minGain = 0.01
MinGain == 10000

Signs == {"neg", "zero", "pos", "nan"}

\* Math.sign(gradient[i][d]) !== Math.sign(YStep[i][d]); NaN !== NaN.
SignsDiffer(gradient, step) ==
    gradient = "nan" \/ step = "nan" \/ gradient # step

\* Mutant: the decayed gain is not floored.
UpdatedGain_NoFloor(gain, gradient, step) ==
    IF SignsDiffer(gradient, step) THEN gain + GainIncrement
    ELSE (gain * 4) \div 5

\* Lines 332-335.
UpdatedGain(gain, gradient, step) ==
    IF SignsDiffer(gradient, step) THEN gain + GainIncrement
    ELSE Max((gain * 4) \div 5, MinGain)

\* The signs YStep[i][d] = currentMomentum * YStep[i][d] - eta * gains[i][d]
\* * gradient[i][d] can have after the clamp to [-50, 50], for a positive
\* momentum and eta: NaN spreads; a zero gradient leaves the step its sign
\* (or underflows to 0); a step and a gradient of opposite signs add up;
\* with equal signs the difference can have any sign.
StepSigns(step, gradient) ==
    IF step = "nan" \/ gradient = "nan" THEN {"nan"}
    ELSE IF gradient = "zero" THEN {step, "zero"}
    ELSE IF step = "zero" \/ step # gradient
    THEN {IF gradient = "pos" THEN "neg" ELSE "pos"}
    ELSE {"neg", "zero", "pos"}

InitGains ==
    /\ called = "tSNE"
    /\ embeddings = Vectors(2)
    /\ gIter = 0
    /\ gGain = InitialGain
    /\ gPrev = InitialGain
    /\ gGradient = "zero"
    /\ gStepBefore = "zero"
    /\ gStep = "zero"
    /\ gBoosts = 0
    /\ OrchIdle
    /\ RngIdle
    /\ SeedIdle
    /\ TsneIdle
    /\ ShuffleIdle
    /\ UmapIdle
    /\ PcaIdle
    /\ ScheduleIdle
    /\ AuxIdle

\* Lines 316-344, for one i and d: the gradient, the gain, the step.
GainRound ==
    /\ gIter < MaxGainRounds
    /\ \E gradient \in Signs :
          /\ SignsDiffer(gradient, gStep) => gBoosts < MaxBoosts
          /\ gGradient' = gradient
          /\ gGain' = UpdatedGain(gGain, gradient, gStep)
          /\ gBoosts' = IF SignsDiffer(gradient, gStep) THEN gBoosts + 1 ELSE gBoosts
          /\ gStep' \in StepSigns(gStep, gradient)
    /\ gStepBefore' = gStep
    /\ gPrev' = gGain
    /\ gIter' = gIter + 1
    /\ UNCHANGED <<orchVars, rngVars, seedVars, tsneVars, shuffleVars, umapVars,
                   pcaVars, scheduleVars, auxVars, called>>

NextGains == GainRound

SpecGains == InitGains /\ [][NextGains]_vars

\* C20: every gain starts at 1.0; a round adds 0.2 to it when the sign of
\* the new gradient component differs from the sign of the previous step
\* component, and otherwise multiplies it by 0.8 with a floor of 0.01; so
\* every gain is >= 0.01 in every reachable state.
C20_Gains ==
    /\ gGain >= 10000
    /\ gIter = 0 => gGain = 1000000
    /\ gIter > 0 =>
          IF gGradient = "nan" \/ gStepBefore = "nan" \/ gGradient # gStepBefore
          THEN gGain = gPrev + 200000
          ELSE /\ (gPrev * 4) \div 5 >= 10000 => gGain = (gPrev * 4) \div 5
               /\ (gPrev * 4) \div 5 < 10000 => gGain = 10000

\* A gain that was raised, then decayed until the floor held it.
C20_Witness ==
    /\ gBoosts > 0
    /\ gGain = 10000
    /\ (gPrev * 4) \div 5 < 10000
    /\ gGradient = gStepBefore


\* ------------------------------------------------------------------------
\* t-SNE: the clamps of the step and of the position (projectTo2D.ts 337-358)
\* ------------------------------------------------------------------------

\* C21: in every iteration and for every point, each component of the step
\* lies in [-50, 50] once the step has been updated, which needs it to be a
\* number: Math.max(-50, Math.min(50, NaN)) is NaN.
C21_StepsClamped ==
    (tPc = "descent" /\ tIter > 0) =>
        \A i \in DOMAIN tStep : \A d \in 1..2 : tStep[i][d].cls = "fin"


\* tSNE's descent loop followed for the magnitude of one axis of the layout.
\* A value is NaN, an infinity, or a number known by the range it lies in:
\* Within(b) is any number v with |v| <= b, for the least multiple b of
\* maxStep that is known to bound it.  The other axis enters only through
\* the test of line 352.
Within(b) == [kind |-> "finite", val |-> b]
PlusInfinity == [kind |-> "+inf", val |-> 0]
MinusInfinity == [kind |-> "-inf", val |-> 0]
NotANumber == [kind |-> "nan", val |-> 0]

\* const maxStep = 50 and const maxPos = 1000
MaxStep == 50
MaxPos == 1000

\* The least multiple of maxStep that is >= b.
Widened(b) == -(((-b) \div MaxStep) * MaxStep)
\* The descent loop is followed on at most MaxClampN points.
MaxClampN == 2

\* Math.max(-bound, Math.min(bound, v)): NaN for NaN, the bound of its sign
\* for an infinity, and a number of [-bound, bound] for a number.
ClampTo(bound, v) ==
    IF v.kind = "nan" THEN NotANumber
    ELSE IF v.kind = "finite" THEN Within(Min(v.val, bound))
    ELSE Within(bound)

\* x + y and x - y, for which the ranges are the same.
Plus(x, y) ==
    IF x.kind = "nan" \/ y.kind = "nan" THEN NotANumber
    ELSE IF x.kind = "finite" /\ y.kind = "finite" THEN Within(x.val + y.val)
    ELSE IF x.kind = "finite" THEN y
    ELSE IF y.kind = "finite" \/ x.kind = y.kind THEN x
    ELSE NotANumber

\* x / n for a count n >= 1.
DividedBy(x, n) ==
    IF x.kind = "finite" THEN Within(Widened(-((-x.val) \div n))) ELSE x

\* isFinite(x); !isFinite(x) || isNaN(x) is its negation.
IsFinite(x) == x.kind = "finite"

\* (next() - 0.5) * 0.01 and (Math.random() - 0.5) * 0.01 lie in
\* [-0.005, 0.005).
SmallValue == Within(Widened(1))

\* momentum * YStep - eta * gains * gradient (lines 338-339) is any value
\* when YStep is a number, the options and the gradient being any values,
\* and NaN when YStep is NaN.
RawStepChoices == {NotANumber, MinusInfinity, PlusInfinity, Within(0)}

RawSteps(step) == IF step.kind = "nan" THEN {NotANumber} ELSE RawStepChoices

\* Lines 341-344.
ClampedStep(raw) == ClampTo(MaxStep, raw)

\* Lines 346-358 for one point: the position after the step, redrawn when a
\* coordinate of the point is not finite and clamped otherwise.
PlacedAt_NoClamp(y, step, otherNaN) ==
    IF ~IsFinite(Plus(y, step)) \/ otherNaN
    THEN SmallValue
    ELSE Plus(y, step)

PlacedAt(y, step, otherNaN) ==
    IF ~IsFinite(Plus(y, step)) \/ otherNaN
    THEN SmallValue
    ELSE ClampTo(MaxPos, Plus(y, step))

RECURSIVE Total(_, _)
\* meanX after the loop of lines 362-365, before the division.
Total(placed, i) ==
    IF i = 0 THEN Within(0) ELSE Plus(Total(placed, i - 1), placed[i])

\* Lines 361-373.
Recentered(placed) ==
    LET mean == DividedBy(Total(placed, Len(placed)), Len(placed))
    IN  [i \in DOMAIN placed |-> Plus(placed[i], mean)]

\* Lines 124-273, as far as the layout goes: Y from the seeded source, YStep 0.
InitClamp ==
    /\ called = "tSNE"
    /\ \E n \in 2..MaxClampN :
          /\ embeddings = Vectors(n)
          /\ cY = [i \in 1..n |-> SmallValue]
          /\ cStep = [i \in 1..n |-> Within(0)]
          /\ cOther = [i \in 1..n |-> FALSE]
    /\ cPc = "descent"
    /\ cOut = <<>>
    /\ OrchIdle
    /\ RngIdle
    /\ SeedIdle
    /\ TsneIdle
    /\ ShuffleIdle
    /\ UmapIdle
    /\ PcaIdle
    /\ ScheduleIdle
    /\ GainsIdle
    /\ AutoIdle

clampFrame == <<orchVars, rngVars, seedVars, tsneVars, shuffleVars, umapVars,
                pcaVars, scheduleVars, gainVars, autoVars, called>>

\* One round of the descent loop, lines 275-374.  `iterations` is any number
\* the caller passes, so that the loop runs any number of rounds.
ClampRound ==
    /\ cPc = "descent"
    /\ \E raw \in [DOMAIN cY -> RawStepChoices], other \in [DOMAIN cY -> BOOLEAN] :
          /\ \A i \in DOMAIN cY :
                /\ raw[i] \in RawSteps(cStep[i])
                /\ cOther[i] => other[i]
          /\ cStep' = [i \in DOMAIN cY |-> ClampedStep(raw[i])]
          /\ cOther' = other
          /\ cY' = Recentered([i \in DOMAIN cY |->
                       PlacedAt(cY[i], ClampedStep(raw[i]), other[i])])
    /\ UNCHANGED <<cPc, cOut>>
    /\ UNCHANGED clampFrame

\* Lines 376-388.
ClampReturn ==
    /\ cPc = "descent"
    /\ cOut' = cY
    /\ cPc' = "done"
    /\ UNCHANGED <<cY, cStep, cOther>>
    /\ UNCHANGED clampFrame

NextClamp == ClampRound \/ ClampReturn

SpecClamp == InitClamp /\ [][NextClamp]_vars

\* C22: for n >= 2 and any option values, every coordinate tSNE returns is
\* finite and at most 2000 in absolute value.
C22_OutputBounded ==
    cPc = "done" =>
        \A i \in DOMAIN cOut : IsFinite(cOut[i]) /\ cOut[i].val <= 2000

\* C22 happens: tSNE returns after rounds in which the step of one point was
\* NaN, so that the point was redrawn, while another point took steps and,
\* the mean subtracted, may lie beyond maxPos.
C22_Witness ==
    /\ cPc = "done"
    /\ \E i, j \in DOMAIN cOut :
          /\ cStep[i].kind = "nan"
          /\ cStep[j].kind = "finite"
          /\ cOut[j].val > 1000


\* C23: for every dimension d >= 1 the two initial basis vectors of the PCA
\* are non-zero before the normalisation, of unit norm after it (numbers,
\* not NaN), and orthogonal to each other.
C23_InitialBasis ==
    (pPc = "started" /\ Len(embeddings[1]) >= 1) =>
        LET dim == Len(embeddings[1])
            v1 == InitialComponent(dim, 0)
            v2 == InitialComponent(dim, 1)
        IN  /\ \E i \in 1..dim : v1[i] # 0
            /\ \E i \in 1..dim : v2[i] # 0
            /\ pPc1 = "fin"
            /\ pPc2 = "fin"
            /\ Dot(v1, v2, dim) = 0


\* C24: the power iteration runs exactly powerIterations rounds (20 when the
\* option is unset) and then ends; within a round the first direction is
\* updated and normalised before the second is orthogonalised against it, so
\* that a first direction that a round turns into NaN turns the second into
\* NaN in the same round.
C24_PowerIteration ==
    LET rounds == IF pOptions.powerIterations.given
                  THEN pOptions.powerIterations.val
                  ELSE 20
    IN  /\ pIter <= rounds
        /\ pPc = "done" => pIter = rounds
        /\ (pIter > 0 /\ pPc1 = "nan") => pPc2 \in {"nan", "empty"}

\* C24 happens: with the option unset the function has returned after 20
\* rounds, the first of which turned a first direction into NaN while the
\* second had been a proper vector.
C24_Witness ==
    /\ pPc = "done"
    /\ ~pOptions.powerIterations.given
    /\ pIter = 20
    /\ Len(embeddings[1]) = 2
    /\ pPc1 = "nan"
    /\ InitialClass(2, 0) = "fin"
    /\ InitialClass(2, 1) = "fin"


\* The edge indices of the attractive updates of `moves`, in order.
RECURSIVE AttractedFrom(_, _)
AttractedFrom(moves, m) ==
    IF m > Len(moves) THEN <<>>
    ELSE IF moves[m].kind = "attract"
         THEN <<moves[m].edge>> \o AttractedFrom(moves, m + 1)
         ELSE AttractedFrom(moves, m + 1)

\* The epochs of this call have begun.
InEpochs == uPc = "epochs" \/ (uPc = "done" /\ Len(embeddings) >= 2)

\* C25: in each epoch every retained edge is processed exactly once, in the
\* order seededShuffle has left in the index array, which is a permutation of
\* the edge indices; the optimisation ends after exactly nEpochs epochs, 500
\* when the option is unset and n < 1000, 200 when it is unset and n >= 1000.
C25_EpochStructure ==
    /\ Epochs(NoOptions, 999) = 500
    /\ Epochs(NoOptions, 1000) = 200
    /\ InEpochs =>
          LET nEpochs == IF uOptions.nEpochs.given THEN uOptions.nEpochs.val
                         ELSE IF Len(embeddings) < 1000 THEN 500 ELSE 200
          IN  /\ Len(uIndices) = Len(uEdges)
              /\ \A e \in 0..(Len(uEdges) - 1) :
                    Cardinality({p \in DOMAIN uIndices : uIndices[p] = e}) = 1
              /\ uEpoch > 0 => AttractedFrom(uMoves, 1) = uIndices
              /\ uEpoch <= nEpochs
              /\ uPc = "done" => uEpoch = nEpochs

\* C25 happens: uMAP has returned after its epochs, the last of which
\* processed two or more edges in an order the shuffle had changed.
C25_Witness ==
    /\ uPc = "done"
    /\ uEpoch > 0
    /\ Len(uEdges) >= 2
    /\ \E p \in DOMAIN uIndices : uIndices[p] # p - 1
    /\ AttractedFrom(uMoves, 1) = uIndices


\* C26 as claimed: the learning rate starts at the configured value in the
\* first epoch, decreases by the same amount every epoch, and reaches 0 in
\* the last epoch.
C26_ReachesZero ==
    (InEpochs /\ uEpoch > 0) =>
        /\ uEpoch = 1 => uAlpha.num = uAlpha.den
        /\ uAlpha.num = uAlpha.den - (uEpoch - 1)
        /\ uPc = "done" => uAlpha.num = 0

\* C26, amended: in epoch e = 0 .. nEpochs - 1 the learning rate is the
\* configured value times (nEpochs - e) / nEpochs: the configured value in
\* the first epoch, less by the configured value / nEpochs in every later
\* one, and the configured value / nEpochs, not 0, in the last.
C26_LearningRate ==
    (InEpochs /\ uEpoch > 0) =>
        LET nEpochs == IF uOptions.nEpochs.given THEN uOptions.nEpochs.val
                       ELSE IF Len(embeddings) < 1000 THEN 500 ELSE 200
        IN  /\ uAlpha.den = nEpochs
            /\ uAlpha.num = nEpochs - (uEpoch - 1)
            /\ uEpoch = 1 => uAlpha.num = uAlpha.den
            /\ uAlpha.num >= 1
            /\ uPc = "done" => uAlpha.num = 1

\* C26 happens: uMAP has returned after 500 epochs, the last of them run at
\* 1/500 of the configured learning rate.
C26_Witness ==
    /\ uPc = "done"
    /\ uEpoch = 500
    /\ uAlpha = [num |-> 1, den |-> 500]


\* C27: every attractive and every repulsive update adds a displacement to
\* one point and subtracts the identical displacement from another point, so
\* that, in exact arithmetic, the updates of an epoch leave the sum of the
\* layout coordinates of either axis what it was: what has been added is
\* what has been subtracted.
C27_SymmetricUpdates ==
    /\ \A m \in DOMAIN uMoves :
          /\ uMoves[m].plus # uMoves[m].minus
          /\ uMoves[m].plus \in 0..(Len(embeddings) - 1)
          /\ uMoves[m].minus \in 0..(Len(embeddings) - 1)
          /\ uMoves[m].added = uMoves[m].subtracted
    /\ \A t \in {uMoves[m].added : m \in DOMAIN uMoves} :
          Cardinality({m \in DOMAIN uMoves : uMoves[m].added = t})
              = Cardinality({m \in DOMAIN uMoves : uMoves[m].subtracted = t})

\* C27 happens: an epoch has made an attractive and a repulsive update.
C27_Witness ==
    /\ uEpoch > 0
    /\ \E m \in DOMAIN uMoves : uMoves[m].kind = "attract"
    /\ \E m \in DOMAIN uMoves : uMoves[m].kind = "repel"


\* The repulsive updates in `moves` that follow the attractive update at
\* position m and precede the next attractive one.
RepulsionsAfter(moves, m) ==
    {r \in DOMAIN moves :
        /\ r > m
        /\ moves[r].kind = "repel"
        /\ \A a \in (m + 1)..r : moves[a].kind = "repel"}

\* C28 as claimed: for every processed edge exactly negativeSampleRate
\* (default 5) repulsive updates are applied, each between the source of the
\* edge and a sampled point that is an index in [0, n - 1] and neither the
\* source nor the target of the edge.
C28_ExactlyRate ==
    \A m \in DOMAIN uMoves :
        uMoves[m].kind = "attract" =>
            /\ Cardinality(RepulsionsAfter(uMoves, m)) = 5
            /\ \A r \in RepulsionsAfter(uMoves, m) :
                  /\ uMoves[r].plus = uMoves[m].plus
                  /\ uMoves[r].minus \in 0..(Len(embeddings) - 1)
                  /\ uMoves[r].minus \notin {uMoves[m].plus, uMoves[m].minus}

\* C28, amended: for every processed edge negativeSampleRate (default 5)
\* points are sampled, each an index in [0, n - 1]; a sample that is the
\* source or the target of the edge is dropped without another draw, and
\* every other one gets a repulsive update between the source and itself:
\* at most negativeSampleRate updates, none with the source or the target.
C28_NegativeSamples ==
    /\ \A m \in DOMAIN uMoves :
          uMoves[m].kind = "attract" =>
              /\ Cardinality(RepulsionsAfter(uMoves, m)) <= 5
              /\ \A r \in RepulsionsAfter(uMoves, m) :
                    /\ uMoves[r].edge = uMoves[m].edge
                    /\ uMoves[r].plus = uMoves[m].plus
                    /\ uMoves[r].minus \in 0..(Len(embeddings) - 1)
                    /\ uMoves[r].minus \notin {uMoves[m].plus, uMoves[m].minus}
    /\ (InEpochs /\ uEpoch > 0) =>
          rngCalls = 2 * Len(embeddings)
                       + uEpoch * (Max(Len(uEdges) - 1, 0) + 5 * Len(uEdges))
    /\ (Len(embeddings) = 2 /\ uEpoch > 0) =>
          \A m \in DOMAIN uMoves : uMoves[m].kind = "attract"

\* C28 happens: an edge of an epoch has had some of its five samples dropped
\* and a repulsive update for another.
C28_Witness ==
    /\ uEpoch > 0
    /\ \E m \in DOMAIN uMoves :
          /\ uMoves[m].kind = "attract"
          /\ Cardinality(RepulsionsAfter(uMoves, m)) \in 1..4


\* The neighbour positions <<i, r>> whose pair of points is {a, b}.
Contributions(knn, a, b) ==
    {<<a, r>> : r \in {x \in DOMAIN knn[a + 1] : knn[a + 1][x] = b}}
        \cup {<<b, r>> : r \in {x \in DOMAIN knn[b + 1] : knn[b + 1][x] = a}}

\* p + q - p * q for the memberships of the positions in `slots`, as a
\* numerator over ProbScale^2: none, one (p) or two of them.
ProbabilisticOr(given, slots) ==
    IF slots = {} THEN 0
    ELSE LET s == CHOOSE x \in slots : TRUE
             p == given[s[1] + 1][s[2]]
         IN  IF slots = {s} THEN p * ProbScale
             ELSE LET t == CHOOSE x \in slots \ {s} : TRUE
                      q == given[t[1] + 1][t[2]]
                  IN  (p + q) * ProbScale - p * q

\* C29: the graph holds at most one edge per unordered pair of distinct
\* points, stored with the smaller index as source (source < target, no
\* self-loop); a pair receives one contribution per directed neighbour
\* relation, at most two, and its weight is p + q - p * q of those directed
\* memberships, p alone when only one direction is a neighbour relation.
C29_GraphConstruction ==
    GraphBuilt =>
        /\ \A e \in DOMAIN uEdges :
              /\ uEdges[e].source < uEdges[e].target
              /\ uEdges[e].source \in 0..(Len(embeddings) - 1)
              /\ uEdges[e].target \in 0..(Len(embeddings) - 1)
              /\ \A f \in DOMAIN uEdges :
                    ({uEdges[e].source, uEdges[e].target}
                        = {uEdges[f].source, uEdges[f].target}) => e = f
              /\ Cardinality(Contributions(uKnn, uEdges[e].source, uEdges[e].target))
                    \in {1, 2}
              /\ uEdges[e].weight
                    = ProbabilisticOr(uGiven, Contributions(uKnn, uEdges[e].source,
                                                            uEdges[e].target))
        /\ \A i \in DOMAIN uKnn : \A r \in DOMAIN uKnn[i] :
              LET a == Min(i - 1, uKnn[i][r])
                  b == Max(i - 1, uKnn[i][r])
              IN  ProbabilisticOr(uGiven, Contributions(uKnn, a, b)) > 0 =>
                      \E e \in DOMAIN uEdges :
                          uEdges[e].source = a /\ uEdges[e].target = b

\* C29 happens: the graph has an edge whose points are neighbours of each
\* other, both memberships strictly between 0 and 1.
C29_Witness ==
    /\ GraphBuilt
    /\ \E e \in DOMAIN uEdges :
          /\ Cardinality(Contributions(uKnn, uEdges[e].source, uEdges[e].target)) = 2
          /\ \A s \in Contributions(uKnn, uEdges[e].source, uEdges[e].target) :
                uGiven[s[1] + 1][s[2]] \in 1..(ProbScale - 1)


\* ------------------------------------------------------------------------
\* The UMAP parameter control (PCAParamsControl.tsx 123-151)
\* ------------------------------------------------------------------------

\* The control is rendered for datasets of 2 .. MaxAutoSize vectors.
MaxAutoSize == 210

\* getAutoNeighbors(n), lines 133-137.  Math.sqrt of a negative number is NaN,
\* and so is Math.floor(10 + NaN / 3); floor(10 + sqrt(m) / 3) is
\* 10 + floor(sqrt(m div 9)) otherwise.
getAutoNeighbors(n) ==
    IF n < 50 THEN Num(Max(3, Min(8, ISqrt(n))))
    ELSE IF n < 200
    THEN IF n - 100 < 0 THEN NaNNumber ELSE Num(10 + ISqrt((n - 100) \div 9))
    ELSE Num(Min(15, n \div 50))

\* getAutoEpochs(n), lines 140-142.
getAutoEpochs(n) == IF n < 1000 THEN 500 ELSE 200

\* The control before it is rendered, its property datasetSize being the
\* size of the dataset loaded (only the size of `embeddings` is modelled).
InitAuto ==
    /\ called = "UMAPParamsControl"
    /\ aSize \in (2..MaxAutoSize) \cup {999, 1000}
    /\ aPc = "idle"
    /\ aNeighbors = Num(0)
    /\ aEpochs = 0
    /\ embeddings = <<>>
    /\ OrchIdle
    /\ RngIdle
    /\ SeedIdle
    /\ TsneIdle
    /\ ShuffleIdle
    /\ UmapIdle
    /\ PcaIdle
    /\ ScheduleIdle
    /\ GainsIdle
    /\ ClampIdle

\* Lines 145-149 with no parameter set: the automatic values shown.
AutoRender ==
    /\ aPc = "idle"
    /\ aNeighbors' = getAutoNeighbors(aSize)
    /\ aEpochs' = getAutoEpochs(aSize)
    /\ aPc' = "shown"
    /\ UNCHANGED <<aSize, orchVars, rngVars, seedVars, tsneVars, shuffleVars,
                   umapVars, pcaVars, scheduleVars, gainVars, clampVars, called>>

NextAuto == AutoRender

SpecAuto == InitAuto /\ [][NextAuto]_vars

\* C30: for every dataset size n >= 2, getAutoNeighbors(n) is the neighbour
\* count uMAP uses when nNeighbors is unset and getAutoEpochs(n) the epoch
\* count it uses when nEpochs is unset, and both are positive integers that
\* can be shown to the user.
C30_AutoValues ==
    aPc = "shown" =>
        /\ aNeighbors = Neighbors(NoOptions, aSize)
        /\ aEpochs = Epochs(NoOptions, aSize)
        /\ ~aNeighbors.nan
        /\ aNeighbors.val >= 1
        /\ aEpochs >= 1

====
